---------------------------- MODULE Spec2Model ----------------------------
(***************************************************************************)
(* Verification model of parts of the HiGHS linear optimization suite:     *)
(*                                                                         *)
(*   - the dual simplex ratio test (CHUZC) of simplex/HEkkDualRow.cpp:     *)
(*     createFreelist, chooseMakepack, createFreemove, choosePossible,     *)
(*     chooseFinal (BFRT reduction, breakpoint grouping, large-alpha       *)
(*     choice, flip list), deleteFreemove, updateFlip, updateDual;         *)
(*   - the packed-sparse Vector of external/qpsolver/vector.hpp;           *)
(*   - the LP utilities of lp_data/HighsLpUtils.cpp: assessing, deleting,  *)
(*     changing and scaling the data of an LP, writing and reading a       *)
(*     basis file;                                                         *)
(*   - the pseudocost statistics of mip/HighsPseudocost.h;                 *)
(*   - Highs::run of lp_data/HighsSetup.h.                                 *)
(*                                                                         *)
(* NUMBERS.  The code computes in double precision.  The model computes    *)
(* in exact rational arithmetic extended with +Inf, -Inf and NaN: a        *)
(* number is a pair <<n, d>> in lowest terms with d > 0, and <<1, 0>>,     *)
(* <<-1, 0>>, <<0, 0>> are +Inf, -Inf and NaN.  Rounding is not modelled,  *)
(* except where an LP is scaled: there every product and quotient is       *)
(* rounded by Fl to a binary floating-point format of MantissaBits bits.   *)
(* The one place where the code relies on a double overflowing to an       *)
(* infinity (selectTheta *= 10 in chooseFinal) saturates at FloatMax.      *)
(*                                                                         *)
(* UNITS.  The checker's integers are 32 bits wide, so magnitudes are      *)
(* expressed in units that keep them small:                                *)
(*   pivot-row entries (packValue, alpha) in units of 1e-9, so that the    *)
(*     tolerance Ta is 1, 30 or 1000 and the constant 1.0 is 10^9;         *)
(*   reduced costs (workDual) in units of the option                       *)
(*     dual_feasibility_tolerance, so that Td is 1;                        *)
(*   bounds, ranges and workDelta in units of 1e-3, so that                *)
(*     kInitialTotalChange (1e-12 = 1e-9 * 1e-3) is 1.                     *)
(* The additive constant 1e-7 of selectTheta and the sentinels             *)
(* kMaxSelectTheta (1e18) and kInitialRemainTheta (1e100) are scaled to    *)
(* the model's range, keeping their order:                                 *)
(*   every ratio of the model < kMaxSelectTheta < kInitialRemainTheta      *)
(*   < FloatMax.                                                           *)
(*                                                                         *)
(* INDICES.  Variables (columns then rows) are numbered from 0 as in the   *)
(* code.  Arrays that the code indexes by position (packIndex, workData,   *)
(* workGroup, Vector::index) are TLA+ sequences, so position i of the code *)
(* is position i + 1 of the model; counts are unchanged.                   *)
(***************************************************************************)
EXTENDS Integers, Sequences, FiniteSets, TLC

(***************************************************************************)
(* Extended rational arithmetic                                            *)
(***************************************************************************)
RECURSIVE GCD(_, _)
GCD(a, b) == IF b = 0 THEN a ELSE GCD(b, a % b)

AbsInt(a) == IF a < 0 THEN -a ELSE a

SignInt(a) == IF a < 0 THEN -1 ELSE IF a > 0 THEN 1 ELSE 0

PInf == <<1, 0>>

NInf == <<-1, 0>>

NaN == <<0, 0>>

R(n) == <<n, 1>>

Zero == <<0, 1>>

IsFinite(x) == x[2] # 0

IsNaN(x) == x = NaN

Norm(n, d) ==
  IF d = 0 THEN <<SignInt(n), 0>>
  ELSE LET s == IF d < 0 THEN -1 ELSE 1
           g == GCD(AbsInt(n), AbsInt(d))
       IN  <<(s * n) \div g, (s * d) \div g>>

Q(n, d) == Norm(n, d)

Neg(x) == <<-x[1], x[2]>>

Add(x, y) ==
  IF IsNaN(x) \/ IsNaN(y) THEN NaN
  ELSE IF ~IsFinite(x) THEN (IF ~IsFinite(y) /\ y # x THEN NaN ELSE x)
  ELSE IF ~IsFinite(y) THEN y
  ELSE LET g == GCD(x[2], y[2])
       IN  Norm(x[1] * (y[2] \div g) + y[1] * (x[2] \div g), x[2] * (y[2] \div g))

Sub(x, y) == Add(x, Neg(y))

Mul(x, y) ==
  IF IsNaN(x) \/ IsNaN(y) THEN NaN
  ELSE IF ~IsFinite(x) \/ ~IsFinite(y)
       THEN <<SignInt(x[1]) * SignInt(y[1]), 0>>
  ELSE LET g1 == GCD(AbsInt(x[1]), y[2])
           g2 == GCD(AbsInt(y[1]), x[2])
       IN  Norm((x[1] \div g1) * (y[1] \div g2), (x[2] \div g2) * (y[2] \div g1))

Div(x, y) ==
  IF IsNaN(x) \/ IsNaN(y) THEN NaN
  ELSE IF ~IsFinite(y) THEN (IF IsFinite(x) THEN Zero ELSE NaN)
  ELSE IF y[1] = 0 THEN <<SignInt(x[1]), 0>>
  ELSE Mul(x, Norm(y[2], y[1]))

\* x < y; every comparison with NaN is false, as in IEEE arithmetic.  Finite
\* numbers are compared by integer part first, so that no product overflows.
Lt(x, y) ==
  IF IsNaN(x) \/ IsNaN(y) \/ x = y THEN FALSE
  ELSE IF x = NInf \/ y = PInf THEN TRUE
  ELSE IF x = PInf \/ y = NInf THEN FALSE
  ELSE LET fx == x[1] \div x[2]
           fy == y[1] \div y[2]
       IN  IF fx # fy THEN fx < fy
           ELSE (x[1] % x[2]) * y[2] < (y[1] % y[2]) * x[2]

Gt(x, y) == Lt(y, x)

Le(x, y) == ~IsNaN(x) /\ ~IsNaN(y) /\ (x = y \/ Lt(x, y))

Ge(x, y) == Le(y, x)

\* std::min(a, b) and std::max(a, b)
Min(a, b) == IF Lt(b, a) THEN b ELSE a

Max(a, b) == IF Lt(a, b) THEN b ELSE a

\* fabs
Fabs(x) == <<AbsInt(x[1]), x[2]>>

\* A double that has grown beyond the largest finite value is an infinity.
FloatMax == 1000

Saturate(x) ==
  IF IsFinite(x) /\ Lt(R(FloatMax), Fabs(x)) THEN <<SignInt(x[1]), 0>> ELSE x

\* The sum of f[x] over the integers x of S, by halving the range lo .. hi
RECURSIVE SumFrom(_, _, _, _)
SumFrom(S, f, lo, hi) ==
  IF lo > hi THEN Zero
  ELSE IF lo = hi THEN (IF lo \in S THEN f[lo] ELSE Zero)
  ELSE Add(SumFrom(S, f, lo, (lo + hi) \div 2),
           SumFrom(S, f, (lo + hi) \div 2 + 1, hi))

SumOver(S, f) ==
  IF S = {} THEN Zero
  ELSE SumFrom(S, f, CHOOSE x \in S : \A y \in S : x <= y,
               CHOOSE x \in S : \A y \in S : y <= x)

Swap(s, i, j) == [s EXCEPT ![i] = s[j], ![j] = s[i]]

(***************************************************************************)
(* State of the dual simplex ratio test                                    *)
(***************************************************************************)
VARIABLES
  num_col, num_row,        \* lp_.num_col_, lp_.num_row_
  a_matrix,                \* lp_.a_matrix_, dense: a_matrix[row][col]
  cost_scale,              \* ekk_instance_.cost_scale_
  highs_debug_level,       \* options_->highs_debug_level
  nonbasicFlag,            \* basis_.nonbasicFlag_
  nonbasicMove,            \* basis_.nonbasicMove_  (workMove)
  workDual, workLower, workUpper, workRange, workValue,   \* info_.work*_
  numTotPermutation,       \* info_.numTotPermutation_
  update_count,            \* info_.update_count
  updated_dual_objective_value,
  row_ep, row_ap,          \* HVectors [count, index, array] of the pivot row
  freeList,
  packCount, packIndex, packValue,
  workDelta, workTheta, workCount, workData, workGroup, workPivot, workAlpha,
  original_workData, alt_workCount, sorted_workData, alt_workGroup,
  cf,                      \* locals of chooseFinal / chooseFinalWorkGroupQuad
  analysis,                \* HighsSimplexAnalysis counters
  pc,                      \* position of the iteration
  ret,                     \* value returned by chooseFinal
  pending,                 \* updates of the iteration still to be applied
  hist                     \* history: values the properties refer back to

(***************************************************************************)
(* State of the packed-sparse Vector (external/qpsolver/vector.hpp)        *)
(***************************************************************************)
VARIABLES
  vec,                     \* the Vector written by the operations
  vop                      \* the last operation applied, its scalar argument
                           \* and the num_nz it found

(***************************************************************************)
(* State of the LP utilities (lp_data/HighsLpUtils.cpp)                    *)
(***************************************************************************)
VARIABLES
  lp,                      \* the HighsLp the utilities assess and edit
  lop,                     \* the last utility applied to lp: its name, the
                           \* status it returned and what it was given
  basis,                   \* the HighsBasis written to the basis file
  host_basis,              \* the HighsBasis the basis file is read into
  file,                    \* the characters of the basis file
  bop                      \* the last basis file operation and its status

(***************************************************************************)
(* State of a Highs object (lp_data/HighsSetup.h) and of a HighsPseudocost *)
(* object (mip/HighsPseudocost.h)                                          *)
(***************************************************************************)
VARIABLES
  lps_,                    \* Highs::lps_, the HighsModelObjects
  hop,                     \* the last call of Highs::run: what it was given,
                           \* the calls it made and what it returned
  pseudocost,              \* the HighsPseudocost object
  psop                     \* the last operation on it, the observations so
                           \* far and the copy taken of it

inputVars ==
  <<num_col, num_row, a_matrix, cost_scale, highs_debug_level, workLower,
    workUpper, workRange, numTotPermutation, update_count, row_ep, row_ap,
    workDelta>>

basisVars == <<nonbasicFlag, nonbasicMove, workDual, workValue,
               updated_dual_objective_value>>

packVars == <<packCount, packIndex, packValue>>

workVars == <<workTheta, workCount, workData, workGroup, workPivot, workAlpha>>

altVars == <<original_workData, alt_workCount, sorted_workData, alt_workGroup>>

rowVars ==
  <<inputVars, basisVars, packVars, workVars, altVars, freeList, cf, analysis,
    pc, ret, pending, hist>>

vecVars == <<vec, vop>>

utilVars ==
  <<lp, lop, basis, host_basis, file, bop>>

solveVars == <<lps_, hop, pseudocost, psop>>

vars == <<rowVars, vecVars, utilVars, solveVars>>

numTot == num_col + num_row

Vars == 0 .. (numTot - 1)

(***************************************************************************)
(* Program constants of the ratio test, in the model's units               *)
(***************************************************************************)
\* options_->dual_feasibility_tolerance, the unit of the reduced costs
Td == R(1)

\* Ta of choosePossible and createFreemove, in units of 1e-9
Ta(count) == IF count < 10 THEN R(1) ELSE IF count < 20 THEN R(30) ELSE R(1000)

\* the constant 1e-7 of selectTheta = 10 * workTheta + 1e-7
kSelectThetaShift == R(1)

\* the constant 1.0 of finalCompare, in units of 1e-9
kFinalCompareCap == R(1000000000)

kInitialTotalChange == R(1)

kMaxSelectTheta == R(100)

kInitialRemainTheta == R(500)

kHighsDebugLevelCheap == 1

\* workCount < 100 counts a quadratic CHUZC, otherwise a heap CHUZC
kHeapThreshold == 100

\* highs_isInfinity(x): x >= kHighsInf
highs_isInfinity(x) == x = PInf

\* const HighsInt move_out = workDelta < 0 ? -1 : 1;
move_out == IF Lt(workDelta, Zero) THEN -1 ELSE 1

(***************************************************************************)
(* Row formation (the caller of the ratio test)                            *)
(***************************************************************************)
\* HighsSparseMatrix::computeDot(row_ep, iCol): row_ep . A_iCol for a column,
\* the entry of row_ep for the logical of a row
computeDot(ep, iCol) ==
  IF iCol < num_col
  THEN SumOver(0 .. (num_row - 1),
               [r \in 0 .. (num_row - 1) |-> Mul(ep.array[r], a_matrix[r][iCol])])
  ELSE ep.array[iCol - num_col]

\* An HVector listing, in increasing order, the nonzero entries of a dense array
Listed(array, n) ==
  LET nz == {i \in 0 .. (n - 1) : array[i] # Zero}
  IN  [k \in 1 .. Cardinality(nz) |->
         CHOOSE i \in nz : Cardinality({j \in nz : j < i}) = k - 1]

HVector(array, n) ==
  [count |-> Len(Listed(array, n)), index |-> Listed(array, n), array |-> array]

\* PRICE: row_ap = row_ep^T A restricted to the nonbasic columns
Price(ep, A, flag, nc, nr) ==
  HVector([j \in 0 .. (nc - 1) |->
             IF flag[j] = 0 THEN Zero
             ELSE SumOver(0 .. (nr - 1),
                          [r \in 0 .. (nr - 1) |-> Mul(ep.array[r], A[r][j])])],
          nc)

(***************************************************************************)
(* HEkkDualRow::clear, chooseMakepack                                      *)
(***************************************************************************)
\* The loops of the code are written as a step and an iteration of the step
\* over the positions lo .. hi - 1 in increasing order.  The iteration halves
\* the range; TLC evaluates an argument only when it is used, and the test
\* first = ... makes it finish the first half before it starts the second, so
\* that the evaluation never nests deeper than the logarithm of the range.

\* One pass of the loop of chooseMakepack(row, offset) on the pack
\* p = [count, index, value]
MakepackStep(p, row, offset, i) ==
  LET index == row.index[i + 1]
      value == row.array[index]
  IN  [count |-> p.count + 1,
       index |-> [p.index EXCEPT ![p.count + 1] = index + offset],
       value |-> [p.value EXCEPT ![p.count + 1] = value]]

RECURSIVE MakepackLoop(_, _, _, _, _)
MakepackLoop(p, row, offset, lo, hi) ==
  IF lo >= hi THEN p
  ELSE IF hi = lo + 1 THEN MakepackStep(p, row, offset, lo)
  ELSE LET mid == (lo + hi) \div 2
           first == MakepackLoop(p, row, offset, lo, mid)
       IN  IF first = p THEN MakepackLoop(p, row, offset, mid, hi)
           ELSE MakepackLoop(first, row, offset, mid, hi)

chooseMakepack(p, row, offset) == MakepackLoop(p, row, offset, 0, row.count)

(***************************************************************************)
(* HEkkDualRow::createFreelist, createFreemove, deleteFreemove             *)
(***************************************************************************)
createFreelist ==
  {i \in Vars : /\ nonbasicFlag[i] # 0
                /\ highs_isInfinity(Neg(workLower[i]))
                /\ highs_isInfinity(workUpper[i])}

\* A variant that moves every free column with a large entry up
FreemoveUp(alpha, move) ==
  IF Gt(Fabs(alpha), Ta(update_count)) THEN 1 ELSE move

\* The move createFreemove gives a free column whose pivot-row entry is alpha
FreemoveOf(alpha, move) ==
  IF Gt(Fabs(alpha), Ta(update_count))
  THEN (IF Gt(Mul(alpha, R(move_out)), Zero) THEN 1 ELSE -1)
  ELSE move

\* alphaOf[iCol] is the value computeDot returns for the member iCol
createFreemove(alphaOf) ==
  [iCol \in Vars |->
     IF iCol \in freeList THEN FreemoveOf(alphaOf[iCol], nonbasicMove[iCol])
     ELSE nonbasicMove[iCol]]

deleteFreemove ==
  [iCol \in Vars |-> IF iCol \in freeList THEN 0 ELSE nonbasicMove[iCol]]

(***************************************************************************)
(* HEkkDualRow::choosePossible                                             *)
(***************************************************************************)
\* alpha = packValue[i] * move_out * move, for a position i of the code
PossibleAlpha(i) ==
  Mul(packValue[i + 1], R(move_out * nonbasicMove[packIndex[i + 1]]))

\* A variant that keeps an entry equal to the tolerance
IsPossibleAtTolerance(alpha) == Ge(alpha, Ta(update_count))

\* if (alpha > Ta)
IsPossible(alpha) == Gt(alpha, Ta(update_count))

\* One pass of the loop; s = [workCount, workData, workTheta]
PossibleStep(s, i) ==
  LET iCol == packIndex[i + 1]
      move == nonbasicMove[iCol]
      alpha == PossibleAlpha(i)
      relax == Add(Mul(workDual[iCol], R(move)), Td)
  IN  IF IsPossible(alpha)
      THEN [workCount |-> s.workCount + 1,
            workData |-> [s.workData EXCEPT ![s.workCount + 1] = <<iCol, alpha>>],
            workTheta |-> IF Gt(Mul(s.workTheta, alpha), relax)
                          THEN Div(relax, alpha) ELSE s.workTheta]
      ELSE s

RECURSIVE PossibleLoop(_, _, _)
PossibleLoop(s, lo, hi) ==
  IF lo >= hi THEN s
  ELSE IF hi = lo + 1 THEN PossibleStep(s, lo)
  ELSE LET mid == (lo + hi) \div 2
           first == PossibleLoop(s, lo, mid)
       IN  IF first = s THEN PossibleLoop(s, mid, hi)
           ELSE PossibleLoop(first, mid, hi)

choosePossible ==
  PossibleLoop([workCount |-> 0, workData |-> workData, workTheta |-> PInf],
               0, packCount)

(***************************************************************************)
(* HEkkDualRow::chooseFinal, step 1: reduce by large step BFRT             *)
(***************************************************************************)
\* HighsFloat selectTheta = 10 * workTheta + 1e-7;
InitialSelectTheta(theta) == Add(Mul(R(10), theta), kSelectThetaShift)

\* selectTheta *= 10;
GrowSelectTheta(selectTheta) == Saturate(Mul(selectTheta, R(10)))

\* if (alpha * selectTheta >= tight)
ReduceTight(alpha, selectTheta, tight) == Ge(Mul(alpha, selectTheta), tight)

\* One pass of the inner for loop; s = [workCount, workData, totalChange]
ReduceStep(s, selectTheta, i) ==
  LET iCol == s.workData[i + 1][1]
      alpha == s.workData[i + 1][2]
      tight == Mul(R(nonbasicMove[iCol]), workDual[iCol])
  IN  IF ReduceTight(alpha, selectTheta, tight)
      THEN [workCount |-> s.workCount + 1,
            workData |-> Swap(s.workData, s.workCount + 1, i + 1),
            totalChange |-> Add(s.totalChange, Mul(workRange[iCol], alpha))]
      ELSE s

RECURSIVE ReduceLoop(_, _, _, _)
ReduceLoop(s, selectTheta, lo, hi) ==
  IF lo >= hi THEN s
  ELSE IF hi = lo + 1 THEN ReduceStep(s, selectTheta, lo)
  ELSE LET mid == (lo + hi) \div 2
           first == ReduceLoop(s, selectTheta, lo, mid)
       IN  IF first = s THEN ReduceLoop(s, selectTheta, mid, hi)
           ELSE ReduceLoop(first, selectTheta, mid, hi)

\* if (totalChange >= totalDelta || workCount == fullCount) break;
ReduceDone(totalChange, count, fullCount) ==
  Ge(totalChange, Fabs(workDelta)) \/ count = fullCount

(***************************************************************************)
(* HEkkDualRow::chooseFinal, step 2: the choice of the sort                *)
(***************************************************************************)
\* use_quad_sort = true;  // workCount < 100;
UseQuadSort(count) == TRUE

\* use_heap_sort = !use_quad_sort;
UseHeapSort(count) == ~UseQuadSort(count)

\* The analysis counters of chooseFinal
CountChuzc(a, count) ==
  IF count < kHeapThreshold
  THEN [a EXCEPT !.num_quad_chuzc = @ + 1]
  ELSE [a EXCEPT !.num_heap_chuzc = @ + 1,
                 !.sum_heap_chuzc_size = @ + count,
                 !.max_heap_chuzc_size = IF count > @ THEN count ELSE @]

(***************************************************************************)
(* HEkkDualRow::chooseFinalWorkGroupQuad                                   *)
(***************************************************************************)
\* if (dual <= selectTheta * value)
QuadTight(dual, selectTheta, value) == Le(dual, Mul(selectTheta, value))

\* One pass of the for loop; s = [workCount, workData, totalChange, remainTheta]
QuadStep(s, selectTheta, i) ==
  LET iCol == s.workData[i + 1][1]
      value == s.workData[i + 1][2]
      dual == Mul(R(nonbasicMove[iCol]), workDual[iCol])
  IN  IF QuadTight(dual, selectTheta, value)
      THEN [s EXCEPT !.workCount = @ + 1,
                     !.workData = Swap(@, s.workCount + 1, i + 1),
                     !.totalChange = Add(@, Mul(value, workRange[iCol]))]
      ELSE IF Lt(Add(dual, Td), Mul(s.remainTheta, value))
      THEN [s EXCEPT !.remainTheta = Div(Add(dual, Td), value)]
      ELSE s

RECURSIVE QuadLoop(_, _, _, _)
QuadLoop(s, selectTheta, lo, hi) ==
  IF lo >= hi THEN s
  ELSE IF hi = lo + 1 THEN QuadStep(s, selectTheta, lo)
  ELSE LET mid == (lo + hi) \div 2
           first == QuadLoop(s, selectTheta, lo, mid)
       IN  IF first = s THEN QuadLoop(s, selectTheta, mid, hi)
           ELSE QuadLoop(first, selectTheta, mid, hi)

\* The locals of chooseFinalWorkGroupQuad before its while loop
QuadBegin(count, theta) ==
  [fullCount |-> count, totalChange |-> kInitialTotalChange,
   selectTheta |-> theta, prev_workCount |-> 0,
   prev_remainTheta |-> kInitialRemainTheta, prev_selectTheta |-> theta]

\* Check for no change in this loop - to prevent infinite loop
QuadNoChange(c, count, selectTheta, remainTheta) ==
  /\ count = c.prev_workCount
  /\ c.prev_selectTheta = selectTheta
  /\ c.prev_remainTheta = remainTheta

(***************************************************************************)
(* HEkkDualRow::chooseFinalWorkGroupHeap                                   *)
(***************************************************************************)
\* dual / value of entry i (a position of the code) of data
HeapRatio(data, i) ==
  Div(Mul(R(nonbasicMove[data[i + 1][1]]), workDual[data[i + 1][1]]), data[i + 1][2])

\* The entries that enter the heap: if (ratio < kMaxSelectTheta)
HeapEntries(data, fullCount) ==
  {i \in 0 .. (fullCount - 1) : Lt(HeapRatio(data, i), kMaxSelectTheta)}

\* maxheapsort leaves heap_i[1 .. heap_num_en] in increasing order of heap_v;
\* the order it gives equal values is not fixed here: every order that is
\* sorted is a possible result.
IsHeapOrder(data, fullCount, heap_i) ==
  /\ Len(heap_i) = Cardinality(HeapEntries(data, fullCount))
  /\ {heap_i[en] : en \in 1 .. Len(heap_i)} = HeapEntries(data, fullCount)
  /\ \A en \in 1 .. (Len(heap_i) - 1) :
       Le(HeapRatio(data, heap_i[en]), HeapRatio(data, heap_i[en + 1]))

\* The for loop over the sorted entries;
\* s = [alt_workCount, alt_workGroup, sorted_workData, selectTheta, totalChange,
\*      this_group_first_entry]
RECURSIVE HeapLoop(_, _, _, _)
HeapLoop(s, data, heap_i, en) ==
  IF en > Len(heap_i) THEN s
  ELSE LET i == heap_i[en]
           iCol == data[i + 1][1]
           value == data[i + 1][2]
           dual == Mul(R(nonbasicMove[iCol]), workDual[iCol])
           next == Gt(dual, Mul(s.selectTheta, value))
           g == IF next
                THEN [s EXCEPT !.alt_workGroup = Append(@, s.alt_workCount),
                               !.this_group_first_entry = s.alt_workCount,
                               !.selectTheta = Div(Add(dual, Td), value)]
                ELSE s
       IN  IF next /\ Ge(s.totalChange, Fabs(workDelta)) THEN g
           ELSE HeapLoop(
                  [g EXCEPT !.sorted_workData = Append(@, <<iCol, value>>),
                            !.totalChange = Add(@, Mul(value, workRange[iCol])),
                            !.alt_workCount = @ + 1],
                  data, heap_i, en + 1)

\* The result [ok, alt_workCount, alt_workGroup, sorted_workData] of
\* chooseFinalWorkGroupHeap on original_workData = data, alt_workCount =
\* fullCount, when maxheapsort returns heap_i.
chooseFinalWorkGroupHeap(data, fullCount, theta, heap_i) ==
  IF Len(heap_i) <= 0
  THEN [ok |-> FALSE, alt_workCount |-> 0, alt_workGroup |-> <<0>>,
        sorted_workData |-> <<>>]
  ELSE LET s == HeapLoop([alt_workCount |-> 0, alt_workGroup |-> <<0>>,
                          sorted_workData |-> <<>>, selectTheta |-> theta,
                          totalChange |-> kInitialTotalChange,
                          this_group_first_entry |-> 0],
                         data, heap_i, 1)
       IN  [ok |-> TRUE, alt_workCount |-> s.alt_workCount,
            alt_workGroup |-> IF s.alt_workCount > s.this_group_first_entry
                              THEN Append(s.alt_workGroup, s.alt_workCount)
                              ELSE s.alt_workGroup,
            sorted_workData |-> s.sorted_workData]

(***************************************************************************)
(* HEkkDualRow::chooseFinalLargeAlpha                                      *)
(***************************************************************************)
\* pass_workData[i] for a position i of the code; position -1 is outside the
\* array, and reading it gives the value ub, which the caller does not control.
DataAt(pass_workData, i, ub) == IF i < 0 THEN ub ELSE pass_workData[i + 1]

\* finalCompare = max(finalCompare, pass_workData[i].second) for lo <= i < hi
RECURSIVE FinalCompareLoop(_, _, _, _)
FinalCompareLoop(finalCompare, pass_workData, lo, hi) ==
  IF lo >= hi THEN finalCompare
  ELSE IF hi = lo + 1 THEN Max(finalCompare, pass_workData[lo + 1][2])
  ELSE LET mid == (lo + hi) \div 2
           first == FinalCompareLoop(finalCompare, pass_workData, lo, mid)
       IN  IF first = finalCompare
           THEN FinalCompareLoop(finalCompare, pass_workData, mid, hi)
           ELSE FinalCompareLoop(first, pass_workData, mid, hi)

\* finalCompare = min(0.1 * finalCompare, 1.0)
FinalCompare(pass_workData, pass_workCount) ==
  Min(Mul(Q(1, 10), FinalCompareLoop(Zero, pass_workData, 0, pass_workCount)),
      kFinalCompareCap)

\* One pass of the scan of a group; s = [dMaxFinal, iMaxFinal]
GroupMaxStep(s, pass_workData, i, ub) ==
  IF Lt(s.dMaxFinal, pass_workData[i + 1][2])
  THEN [dMaxFinal |-> pass_workData[i + 1][2], iMaxFinal |-> i]
  ELSE IF s.dMaxFinal = pass_workData[i + 1][2]
  THEN LET jCol == DataAt(pass_workData, s.iMaxFinal, ub)[1]
           iCol == pass_workData[i + 1][1]
       IN  IF numTotPermutation[iCol] < numTotPermutation[jCol]
           THEN [s EXCEPT !.iMaxFinal = i]
           ELSE s
  ELSE s

RECURSIVE GroupMaxLoop(_, _, _, _, _)
GroupMaxLoop(s, pass_workData, ub, lo, hi) ==
  IF lo >= hi THEN s
  ELSE IF hi = lo + 1 THEN GroupMaxStep(s, pass_workData, lo, ub)
  ELSE LET mid == (lo + hi) \div 2
           first == GroupMaxLoop(s, pass_workData, ub, lo, mid)
       IN  IF first = s THEN GroupMaxLoop(s, pass_workData, ub, mid, hi)
           ELSE GroupMaxLoop(first, pass_workData, ub, mid, hi)

GroupMax(pass_workData, pass_workGroup, iGroup, ub) ==
  GroupMaxLoop([dMaxFinal |-> Zero, iMaxFinal |-> -1], pass_workData, ub,
               pass_workGroup[iGroup + 1], pass_workGroup[iGroup + 2])

\* A variant that takes the last group whatever its largest alpha
GroupPassesAlways(alpha, finalCompare) == TRUE

\* if (pass_workData[iMaxFinal].second > finalCompare)
GroupPasses(alpha, finalCompare) == Gt(alpha, finalCompare)

\* The scan of the groups from the last to the first
RECURSIVE LargeAlphaLoop(_, _, _, _, _)
LargeAlphaLoop(finalCompare, pass_workData, pass_workGroup, iGroup, ub) ==
  IF iGroup < 0 THEN [breakIndex |-> -1, breakGroup |-> -1]
  ELSE LET m == GroupMax(pass_workData, pass_workGroup, iGroup, ub)
       IN  IF GroupPasses(DataAt(pass_workData, m.iMaxFinal, ub)[2], finalCompare)
           THEN [breakIndex |-> m.iMaxFinal, breakGroup |-> iGroup]
           ELSE LargeAlphaLoop(finalCompare, pass_workData, pass_workGroup,
                               iGroup - 1, ub)

chooseFinalLargeAlpha(pass_workCount, pass_workData, pass_workGroup, ub) ==
  LargeAlphaLoop(FinalCompare(pass_workData, pass_workCount), pass_workData,
                 pass_workGroup, Len(pass_workGroup) - 2, ub)

(***************************************************************************)
(* HEkkDualRow::chooseFinal, steps 3 and 4: pivot, step and flip list      *)
(***************************************************************************)
\* workAlpha = data[breakIndex].second * move_out * workMove[workPivot]
PivotAlpha(value, pivot) == Mul(value, R(move_out * nonbasicMove[pivot]))

\* workTheta = workDual * workMove > 0 ? workDual / workAlpha : 0
PivotTheta(pivot, alpha) ==
  IF Gt(Mul(workDual[pivot], R(nonbasicMove[pivot])), Zero)
  THEN Div(workDual[pivot], alpha) ELSE Zero

\* A variant that flips the pivot's group as well
FlipEndAfterPivotGroup(group, breakGroup) == group[breakGroup + 2]

\* for (i = 0; i < workGroup[breakGroup]; i++): the end of the flipped entries
FlipEnd(group, breakGroup) == group[breakGroup + 1]

\* workData[workCount++] = make_pair(iCol, move * workRange[iCol]) for entry i
\* of from; s = [workCount, workData]
FlipStep(s, from, i) ==
  LET iCol == from[i + 1][1]
      move == nonbasicMove[iCol]
  IN  [workCount |-> s.workCount + 1,
       workData |-> [s.workData EXCEPT ![s.workCount + 1] =
                       <<iCol, Mul(R(move), workRange[iCol])>>]]

RECURSIVE FlipLoop(_, _, _, _)
FlipLoop(s, from, lo, hi) ==
  IF lo >= hi THEN s
  ELSE IF hi = lo + 1 THEN FlipStep(s, from, lo)
  ELSE LET mid == (lo + hi) \div 2
           first == FlipLoop(s, from, lo, mid)
       IN  IF first = s THEN FlipLoop(s, from, mid, hi)
           ELSE FlipLoop(first, from, mid, hi)

\* The entries of the final group that the step would make dual infeasible
\* (heap sort only)
FinalGroupStep(s, from, theta, i) ==
  LET iCol == from[i + 1][1]
      value == from[i + 1][2]
      move == nonbasicMove[iCol]
      new_dual == Sub(workDual[iCol], Mul(R(move_out * move), Mul(theta, value)))
      infeasible == Lt(Mul(R(move), new_dual), Neg(Td))
  IN  IF infeasible THEN FlipStep(s, from, i) ELSE s

RECURSIVE FinalGroupLoop(_, _, _, _, _)
FinalGroupLoop(s, from, theta, lo, hi) ==
  IF lo >= hi THEN s
  ELSE IF hi = lo + 1 THEN FinalGroupStep(s, from, theta, lo)
  ELSE LET mid == (lo + hi) \div 2
           first == FinalGroupLoop(s, from, theta, lo, mid)
       IN  IF first = s THEN FinalGroupLoop(s, from, theta, mid, hi)
           ELSE FinalGroupLoop(first, from, theta, mid, hi)

\* std::pair's operator<
PairLt(p, q) == p[1] < q[1] \/ (p[1] = q[1] /\ Lt(p[2], q[2]))

\* pdqsort(workData.begin(), workData.begin() + workCount): the first count
\* entries in increasing order
SortRank(data, count, l) ==
  Cardinality({m \in 1 .. count :
                 \/ PairLt(data[m], data[l])
                 \/ (~PairLt(data[l], data[m]) /\ m < l)})

pdqsort(data, count) ==
  [k \in 1 .. Len(data) |->
     IF k > count THEN data[k]
     ELSE data[CHOOSE l \in 1 .. count : SortRank(data, count, l) = k - 1]]

(***************************************************************************)
(* HEkkDualRow::debugChooseColumnInfeasibilities                           *)
(***************************************************************************)
\* The pivot-row entry of iCol in the packed row (0 when it has none)
unpack_value(iCol) ==
  LET at == {ix \in 1 .. packCount : packIndex[ix] = iCol}
  IN  IF at = {} THEN Zero
      ELSE packValue[CHOOSE ix \in at : \A other \in at : other <= ix]

\* The flipped entry i of data would be dual infeasible after the step theta
FlipInfeasible(data, i, theta) ==
  LET iCol == data[i + 1][1]
      new_dual == Sub(workDual[iCol], Mul(theta, unpack_value(iCol)))
      infeasibility_after_flip == Mul(R(-nonbasicMove[iCol]), new_dual)
  IN  Lt(infeasibility_after_flip, Neg(Td))

debugChooseColumnInfeasibilities(data, count, theta) ==
  IF highs_debug_level < kHighsDebugLevelCheap THEN 0
  ELSE Cardinality({i \in 0 .. (count - 1) : FlipInfeasible(data, i, theta)})

(***************************************************************************)
(* HEkkDualRow::updateFlip, updateDual                                     *)
(***************************************************************************)
\* HEkk::flipBound(iCol): the move is reversed and the value goes to the
\* bound the new move points away from
flipBoundMove(move) == -move

flipBoundValue(iCol, move) ==
  IF flipBoundMove(move) = 1 THEN workLower[iCol] ELSE workUpper[iCol]

\* The change of one flip to the dual objective
FlipObjectiveChange(change, dual) == Mul(Mul(change, dual), cost_scale)

\* One pass of the loop; s = [nonbasicMove, workValue, change]
UpdateFlipStep(s, i) ==
  LET iCol == workData[i + 1][1]
      change == workData[i + 1][2]
  IN  [nonbasicMove |-> [s.nonbasicMove EXCEPT ![iCol] = flipBoundMove(@)],
       workValue |-> [s.workValue EXCEPT
                        ![iCol] = flipBoundValue(iCol, s.nonbasicMove[iCol])],
       change |-> Add(s.change, FlipObjectiveChange(change, workDual[iCol]))]

RECURSIVE UpdateFlipLoop(_, _, _)
UpdateFlipLoop(s, lo, hi) ==
  IF lo >= hi THEN s
  ELSE IF hi = lo + 1 THEN UpdateFlipStep(s, lo)
  ELSE LET mid == (lo + hi) \div 2
           first == UpdateFlipLoop(s, lo, mid)
       IN  IF first = s THEN UpdateFlipLoop(s, mid, hi)
           ELSE UpdateFlipLoop(first, mid, hi)

updateFlip ==
  UpdateFlipLoop([nonbasicMove |-> nonbasicMove, workValue |-> workValue,
                  change |-> Zero], 0, workCount)

\* A variant with the sign of the change reversed
DualObjectiveChangeReversed(iCol, delta_dual) ==
  Mul(Mul(R(nonbasicFlag[iCol]), Mul(workValue[iCol], delta_dual)), cost_scale)

\* The change of one dual update to the dual objective
DualObjectiveChange(iCol, delta_dual) ==
  Mul(Mul(R(nonbasicFlag[iCol]), Neg(Mul(workValue[iCol], delta_dual))), cost_scale)

\* One pass of the loop; s = [workDual, change]
UpdateDualStep(s, theta, i) ==
  LET iCol == packIndex[i + 1]
      delta_dual == Mul(theta, packValue[i + 1])
  IN  [workDual |-> [s.workDual EXCEPT ![iCol] = Sub(@, delta_dual)],
       change |-> Add(s.change, DualObjectiveChange(iCol, delta_dual))]

RECURSIVE UpdateDualLoop(_, _, _, _)
UpdateDualLoop(s, theta, lo, hi) ==
  IF lo >= hi THEN s
  ELSE IF hi = lo + 1 THEN UpdateDualStep(s, theta, lo)
  ELSE LET mid == (lo + hi) \div 2
           first == UpdateDualLoop(s, theta, lo, mid)
       IN  IF first = s THEN UpdateDualLoop(s, theta, mid, hi)
           ELSE UpdateDualLoop(first, theta, mid, hi)

updateDual(theta) ==
  UpdateDualLoop([workDual |-> workDual, change |-> Zero], theta, 0, packCount)

\* The dual objective recomputed from scratch
DualObjective(flag, value, dual) ==
  Mul(cost_scale,
      SumOver({j \in Vars : flag[j] # 0}, [j \in Vars |-> Mul(value[j], dual[j])]))

(***************************************************************************)
(* Initial states: the state at the start of a CHUZC of dual phase 2       *)
(***************************************************************************)
\* Largest |workDelta| of the initial states (in units of 1e-3)
MaxDelta == 50

\* Number of candidates of the largest family of initial states
MaxCandidates == 101

\* The bound status of a variable: its nonbasicFlag, nonbasicMove, bounds and
\* value (HEkk::initialiseNonbasicValueAndMove)
KindFlag(kind) == IF kind = "basic" THEN 0 ELSE 1

KindMove(kind) == IF kind = "lower" THEN 1 ELSE IF kind = "upper" THEN -1 ELSE 0

KindLower(kind) == IF kind = "free" THEN NInf ELSE R(1)

KindUpper(kind, range) == IF kind = "free" THEN PInf ELSE R(1 + range)

KindValue(kind, range) ==
  IF kind = "free" THEN Zero
  ELSE IF kind = "upper" THEN R(1 + range) ELSE R(1)

\* The history before anything has happened
NoHistory ==
  [feasible |-> FALSE, sum |-> Zero, objective |-> Zero,
   move |-> <<>>, moveChuzc |-> <<>>, dual |-> <<>>,
   possibleCount |-> -1, possibleData |-> <<>>,
   reducedCount |-> -1, reducedData |-> <<>>, reducedTheta |-> Zero,
   groupedCount |-> -1, groupedData |-> <<>>,
   sort |-> "none", breakIndex |-> -1, breakGroup |-> -1,
   flips |-> 0, duals |-> 0]

NoLocals ==
  [fullCount |-> 0, totalChange |-> Zero, selectTheta |-> Zero,
   prev_workCount |-> 0, prev_remainTheta |-> Zero, prev_selectTheta |-> Zero]

NoAnalysis ==
  [num_quad_chuzc |-> 0, num_heap_chuzc |-> 0, sum_heap_chuzc_size |-> 0,
   max_heap_chuzc_size |-> 0]

\* Every nonbasic variable is dual feasible: move_j * d_j >= -Td
DualFeasible(flag, move, dual) ==
  \A j \in DOMAIN flag : flag[j] # 0 => Ge(Mul(R(move[j]), dual[j]), Neg(Td))

\* The initial state of an LP with nc columns and nr rows: the sequences kind,
\* range and dual give the status of each variable, A the rows of the matrix,
\* ep the pivot row of B^-1, delta the primal infeasibility of the leaving
\* variable.
Start(nc, nr, kind, range, dual, A, ep, delta, perm, count, debug) ==
  LET V == 0 .. (nc + nr - 1)
      flag == [j \in V |-> KindFlag(kind[j + 1])]
      move == [j \in V |-> KindMove(kind[j + 1])]
      value == [j \in V |-> KindValue(kind[j + 1], range[j + 1])]
      dualOf == [j \in V |-> R(dual[j + 1])]
      rowEp == HVector([r \in 0 .. (nr - 1) |-> R(ep[r + 1])], nr)
      scale == R(2)
      sum == Mul(scale, SumOver({j \in V : flag[j] # 0},
                                [j \in V |-> Mul(value[j], dualOf[j])]))
  IN  /\ num_col = nc
      /\ num_row = nr
      /\ a_matrix = [r \in 0 .. (nr - 1) |-> [j \in 0 .. (nc - 1) |-> R(A[r + 1][j + 1])]]
      /\ cost_scale = scale
      /\ highs_debug_level = debug
      /\ nonbasicFlag = flag
      /\ nonbasicMove = move
      /\ workDual = dualOf
      /\ workLower = [j \in V |-> KindLower(kind[j + 1])]
      /\ workUpper = [j \in V |-> KindUpper(kind[j + 1], range[j + 1])]
      /\ workRange = [j \in V |-> Sub(KindUpper(kind[j + 1], range[j + 1]), KindLower(kind[j + 1]))]
      /\ workValue = value
      /\ numTotPermutation = perm
      /\ update_count = count
      /\ updated_dual_objective_value = sum
      /\ row_ep = rowEp
      /\ row_ap = Price(rowEp, [r \in 0 .. (nr - 1) |->
                                  [j \in 0 .. (nc - 1) |-> R(A[r + 1][j + 1])]],
                        flag, nc, nr)
      /\ freeList = {}
      /\ packCount = 0
      /\ packIndex = [i \in 1 .. (nc + nr) |-> 0]
      /\ packValue = [i \in 1 .. (nc + nr) |-> Zero]
      /\ workDelta = R(delta)
      /\ workTheta = Zero
      /\ workCount = 0
      /\ workData = [i \in 1 .. (nc + nr) |-> <<0, Zero>>]
      /\ workGroup = <<>>
      /\ workPivot = -1
      /\ workAlpha = Zero
      /\ original_workData = <<>>
      /\ alt_workCount = 0
      /\ sorted_workData = <<>>
      /\ alt_workGroup = <<>>
      /\ cf = NoLocals
      /\ analysis = NoAnalysis
      /\ pc = "createFreelist"
      /\ ret = 0
      /\ pending = {}
      /\ hist = [NoHistory EXCEPT !.feasible = DualFeasible(flag, move, dualOf),
                                  !.sum = sum, !.objective = sum,
                                  !.move = move, !.dual = dualOf]

\* The permutations numTotPermutation is drawn from
Identity(n) == [j \in 0 .. (n - 1) |-> j]

Reverse(n) == [j \in 0 .. (n - 1) |-> n - 1 - j]

\* Three columns (at lower, at upper, free or basic) and one row, whose logical
\* is basic when the third column is nonbasic.
InitSel ==
  \E d0 \in {-2, 0, 3}, a0 \in {2, 4}, d1 \in {-3, 0, 2}, a1 \in {-4, -2, 1},
     c2 \in {<<"free", 0>>, <<"free", 2>>, <<"free", -4>>,
             <<"basic", 1>>, <<"basic", -1>>},
     k3 \in {"lower", "free"}, d3 \in {0, 2},
     delta \in {-MaxDelta, 1, MaxDelta}, rev \in BOOLEAN :
    /\ c2[1] = "free" => (k3 = "lower" /\ d3 = 0)
    /\ k3 = "free" => d3 = 0
    /\ Start(3, 1,
             <<"lower", "upper", c2[1],
               IF c2[1] = "basic" THEN k3 ELSE "basic">>,
             <<1, 2, 1, 1>>,
             <<d0, d1, 0, d3>>,
             <<<<a0, a1, c2[2]>>>>,
             <<IF c2[1] = "basic" THEN c2[2] ELSE 1>>,
             delta,
             IF rev THEN Reverse(4) ELSE Identity(4),
             0, 0)

\* The LPs of InitSel with a leaving variable of primal infeasibility 0
ZeroDeltaRow ==
  \E d0 \in {-2, 0, 3}, a0 \in {2, 4}, d1 \in {-3, 0, 2}, a1 \in {-4, -2, 1},
     c2 \in {<<"free", 0>>, <<"free", 2>>, <<"free", -4>>,
             <<"basic", 1>>, <<"basic", -1>>},
     k3 \in {"lower", "free"}, d3 \in {0, 2}, rev \in BOOLEAN :
    /\ c2[1] = "free" => (k3 = "lower" /\ d3 = 0)
    /\ k3 = "free" => d3 = 0
    /\ Start(3, 1,
             <<"lower", "upper", c2[1],
               IF c2[1] = "basic" THEN k3 ELSE "basic">>,
             <<1, 2, 1, 1>>,
             <<d0, d1, 0, d3>>,
             <<<<a0, a1, c2[2]>>>>,
             <<IF c2[1] = "basic" THEN c2[2] ELSE 1>>,
             0,
             IF rev THEN Reverse(4) ELSE Identity(4),
             0, 0)

\* Two columns whose pivot-row entries lie on both sides of each value of Ta
InitTier ==
  \E a0 \in {1, 2, 30, 31, 1000, 1001},
     a1 \in {-1001, -1000, -31, -30, -2, -1, 1, 2, 30, 31, 1000, 1001},
     k1 \in {"upper", "free"}, d0 \in {0, 2},
     count \in {9, 10, 19, 20}, delta \in {-1, 1} :
    Start(2, 1, <<"lower", k1, "basic">>, <<1, 1, 1>>, <<d0, 0, 0>>,
          <<<<a0, a1>>>>, <<1>>, delta, Identity(3), count, 0)

\* Four candidates at their lower bounds and a long primal step
InitCmp ==
  \E a \in [1 .. 3 -> {2, 6, 20}], d \in [1 .. 3 -> {0, 4, 5, 13}] :
    /\ d[1] <= d[2]
    /\ Start(4, 1, <<"lower", "lower", "lower", "lower", "basic">>,
             <<1, 1, 1, 1, 1>>, <<0, d[1], d[2], d[3], 0>>,
             <<<<2, a[1], a[2], a[3]>>>>, <<1>>, MaxDelta, Identity(5), 0,
             kHighsDebugLevelCheap)

\* Many equal candidates
InitBig ==
  \E n \in (MaxCandidates - 2) .. MaxCandidates, delta \in {1, MaxDelta} :
    Start(n, 1, [j \in 1 .. (n + 1) |-> IF j <= n THEN "lower" ELSE "basic"],
          [j \in 1 .. (n + 1) |-> 1], [j \in 1 .. (n + 1) |-> 0],
          <<[j \in 1 .. n |-> 2]>>, <<1>>, delta, Identity(n + 1), 0, 0)

(***************************************************************************)
(* The packed-sparse Vector of the QP solver                               *)
(***************************************************************************)
\* The largest dimension of a Vector and the largest magnitude of a value
MaxDim == 3
MaxVal == 2

\* Vector(unsigned int d): index and value of d zeros, num_nz = 0
Vector(d) ==
  [num_nz |-> 0, dim |-> d, index |-> [i \in 0 .. (d - 1) |-> 0],
   value |-> [i \in 0 .. (d - 1) |-> 0]]

\* for (i = 0; i < num_nz; i++) { value[index[i]] = 0; index[i] = 0; }
RECURSIVE ResetLoop(_, _)
ResetLoop(v, i) ==
  IF i >= v.num_nz THEN v
  ELSE ResetLoop([v EXCEPT !.value[v.index[i]] = 0, !.index[i] = 0], i + 1)

reset(v) == [ResetLoop(v, 0) EXCEPT !.num_nz = 0]

\* for (i = 0; i < other.num_nz; i++) { index[i] = other.index[i]; ... }
RECURSIVE RepopulateLoop(_, _, _)
RepopulateLoop(v, other, i) ==
  IF i >= other.num_nz THEN v
  ELSE RepopulateLoop([v EXCEPT !.index[i] = other.index[i],
                                !.value[other.index[i]] =
                                  other.value[other.index[i]]],
                      other, i + 1)

repopulate(v, other) ==
  [RepopulateLoop(reset(v), other, 0) EXCEPT !.num_nz = other.num_nz]

\* static Vector& unit(dim, u, target)
unit_target(u, target) ==
  [reset(target) EXCEPT !.index[0] = u, !.value[u] = 1, !.num_nz = 1]

\* static Vector unit(dim, u)
unit(d, u) == [Vector(d) EXCEPT !.index[0] = u, !.value[u] = 1, !.num_nz = 1]

\* A variant that also keeps an entry whose magnitude equals the threshold
SanitizeKeepsAtThreshold(value, threshold) == AbsInt(value) >= threshold

\* if (fabs(value[index[i]]) > threshold)
SanitizeKeeps(value, threshold) == AbsInt(value) > threshold

\* The loop of sanitize: s.v is the vector, s.new_idx the entries kept
RECURSIVE SanitizeLoop(_, _, _)
SanitizeLoop(s, threshold, i) ==
  IF i >= s.v.num_nz THEN s
  ELSE IF SanitizeKeeps(s.v.value[s.v.index[i]], threshold)
  THEN SanitizeLoop([v |-> [s.v EXCEPT !.index[s.new_idx] = s.v.index[i]],
                     new_idx |-> s.new_idx + 1], threshold, i + 1)
  ELSE SanitizeLoop([v |-> [s.v EXCEPT !.value[s.v.index[i]] = 0,
                                       !.index[i] = 0],
                     new_idx |-> s.new_idx], threshold, i + 1)

sanitize(v, threshold) ==
  LET s == SanitizeLoop([v |-> v, new_idx |-> 0], threshold, 0)
  IN  [s.v EXCEPT !.num_nz = s.new_idx]

\* for (i = 0; i < dim; i++) if (value[i] != 0.0) index[num_nz++] = i;
RECURSIVE ResparsifyLoop(_, _)
ResparsifyLoop(v, i) ==
  IF i >= v.dim THEN v
  ELSE IF v.value[i] # 0
  THEN ResparsifyLoop([v EXCEPT !.index[v.num_nz] = i, !.num_nz = v.num_nz + 1],
                      i + 1)
  ELSE ResparsifyLoop(v, i + 1)

resparsify(v) == ResparsifyLoop([v EXCEPT !.num_nz = 0], 0)

\* for (i = 0; i < num_nz; i++) value[index[i]] *= a;
RECURSIVE ScaleLoop(_, _, _)
ScaleLoop(v, a, i) ==
  IF i >= v.num_nz THEN v
  ELSE ScaleLoop([v EXCEPT !.value[v.index[i]] = @ * a], a, i + 1)

scale(v, a) == ScaleLoop(v, a, 0)

\* The loop of saxpy(a, x)
RECURSIVE SaxpyLoop(_, _, _, _)
SaxpyLoop(v, a, x, i) ==
  IF i >= x.num_nz THEN v
  ELSE LET listed == IF v.value[x.index[i]] = 0
                     THEN [v EXCEPT !.index[v.num_nz] = x.index[i],
                                    !.num_nz = v.num_nz + 1]
                     ELSE v
       IN  SaxpyLoop([listed EXCEPT !.value[x.index[i]] =
                                      @ + a * x.value[x.index[i]]],
                     a, x, i + 1)

\* Vector& saxpy(double a, const Vector& x)
saxpy(v, a, x) == resparsify(SaxpyLoop(sanitize(v, 0), a, x, 0))

\* Vector& saxpy(double a, double b, const Vector& x)
saxpy_scaled(v, a, b, x) == saxpy(scale(v, a), b, x)

\* The loop of operator+ (sign = 1) and of operator- (sign = -1)
RECURSIVE SumLoop(_, _, _, _, _)
SumLoop(result, v, other, sign, i) ==
  IF i >= v.dim THEN result
  ELSE LET sum == v.value[i] + sign * other.value[i]
           stored == [result EXCEPT !.value[i] = sum]
       IN  SumLoop(IF sum # 0
                   THEN [stored EXCEPT !.index[result.num_nz] = i,
                                       !.num_nz = result.num_nz + 1]
                   ELSE stored,
                   v, other, sign, i + 1)

operator_plus(v, other) == SumLoop(Vector(v.dim), v, other, 1, 0)

operator_minus(v, other) == SumLoop(Vector(v.dim), v, other, -1, 0)

\* The loop of operator*(double) and, with d = -1, of the unary operator-
RECURSIVE TimesLoop(_, _, _, _)
TimesLoop(result, v, d, i) ==
  IF i >= v.num_nz THEN result
  ELSE TimesLoop([result EXCEPT !.index[i] = v.index[i],
                                !.value[v.index[i]] = d * v.value[v.index[i]]],
                 v, d, i + 1)

operator_times(v, d) ==
  [TimesLoop(Vector(v.dim), v, d, 0) EXCEPT !.num_nz = v.num_nz]

operator_negate(v) ==
  [TimesLoop(Vector(v.dim), v, -1, 0) EXCEPT !.num_nz = v.num_nz]

\* The loop of operator+=
RECURSIVE PlusAssignLoop(_, _, _)
PlusAssignLoop(v, other, i) ==
  IF i >= other.num_nz THEN v
  ELSE PlusAssignLoop([v EXCEPT !.value[other.index[i]] =
                                  @ + other.value[other.index[i]]],
                      other, i + 1)

operator_plus_assign(v, other) == resparsify(PlusAssignLoop(v, other, 0))

operator_times_assign(v, d) == ScaleLoop(v, d, 0)

(***************************************************************************)
(* LP assessment (lp_data/HighsLpUtils.cpp)                                *)
(***************************************************************************)
\* HighsStatus
kOk == "kOk"
kWarning == "kWarning"
kError == "kError"

\* The options the utilities read: infinite_bound and infinite_cost (1e20)
\* are 10, primal_feasibility_tolerance (1e-7) is 1, small_matrix_value
\* (1e-9) is 1/10 of it and large_matrix_value (1e15) is 5.
infinite_bound == R(10)
infinite_cost == R(10)
primal_feasibility_tolerance == R(1)
small_matrix_value == Q(1, 10)
large_matrix_value == R(5)

\* interpretCallStatus: an error of the call is an error, a warning of the
\* call or of the caller so far is a warning
interpretCallStatus(call_status, from_return_status) ==
  IF call_status = kError THEN kError
  ELSE IF call_status = kWarning \/ from_return_status = kWarning THEN kWarning
  ELSE kOk

\* HighsIndexCollection: an interval [from_, to_], a set or a mask over
\* dimension_ indices
Interval(dim, from, to) ==
  [dimension_ |-> dim, is_interval_ |-> TRUE, from_ |-> from, to_ |-> to,
   is_set_ |-> FALSE, set_num_entries_ |-> -1, set_ |-> <<>>,
   is_mask_ |-> FALSE, mask_ |-> <<>>]

IndexSet(dim, set) ==
  [dimension_ |-> dim, is_interval_ |-> FALSE, from_ |-> -1, to_ |-> -2,
   is_set_ |-> TRUE, set_num_entries_ |-> Len(set), set_ |-> set,
   is_mask_ |-> FALSE, mask_ |-> <<>>]

IndexMask(dim, mask) ==
  [dimension_ |-> dim, is_interval_ |-> FALSE, from_ |-> -1, to_ |-> -2,
   is_set_ |-> FALSE, set_num_entries_ |-> -1, set_ |-> <<>>,
   is_mask_ |-> TRUE, mask_ |-> mask]

\* increasingSetOk(set, num_entries, set_entry_lower, set_entry_upper, strict)
increasingSetOk(set, set_num_entries, set_entry_lower, set_entry_upper, strict) ==
  /\ \A k \in 1 .. set_num_entries :
       set[k] >= set_entry_lower /\ set[k] <= set_entry_upper
  /\ \A k \in 2 .. set_num_entries :
       IF strict THEN set[k - 1] < set[k] ELSE set[k - 1] <= set[k]

\* assessIndexCollection: the interval lies in [0, dimension_ - 1]; the
\* entries of the set lie in it and increase strictly
assessIndexCollection(ic) ==
  IF ic.is_interval_
  THEN ~ic.is_set_ /\ ~ic.is_mask_ /\ ic.from_ >= 0 /\ ic.to_ <= ic.dimension_ - 1
  ELSE IF ic.is_set_
  THEN /\ ~ic.is_mask_
       /\ increasingSetOk(ic.set_, ic.set_num_entries_, 0, ic.dimension_ - 1, TRUE)
  ELSE ic.is_mask_

\* limitsForIndexCollection: the range of k the loops run over
limitsForIndexCollection(ic) ==
  IF ic.is_interval_ THEN [ok |-> TRUE, from_k |-> ic.from_, to_k |-> ic.to_]
  ELSE IF ic.is_set_
  THEN [ok |-> TRUE, from_k |-> 0, to_k |-> ic.set_num_entries_ - 1]
  ELSE IF ic.is_mask_
  THEN [ok |-> TRUE, from_k |-> 0, to_k |-> ic.dimension_ - 1]
  ELSE [ok |-> FALSE, from_k |-> 0, to_k |-> -1]

\* local_col / local_ix of pass k and usr_col / usr_ix after it
LocalIx(ic, k) == IF ic.is_interval_ \/ ic.is_mask_ THEN k ELSE ic.set_[k + 1]

UsrIx(ic, k, usr_ix) == IF ic.is_interval_ THEN usr_ix + 1 ELSE k

\* if (index_collection.is_mask_ && !index_collection.mask_[local_col]) continue
MaskedOut(ic, k) == ic.is_mask_ /\ ~ic.mask_[LocalIx(ic, k) + 1]

\* The compile-time flag of assessCosts: the source allows infinite costs
kHighsAllowInfiniteCosts == TRUE

\* bool legal_cost = abs_cost < infinite_cost
LegalCost(c) == Lt(Fabs(c), infinite_cost)

\* The loop of assessCosts: the value of error_found after it
RECURSIVE AssessCostsLoop(_, _, _, _, _, _)
AssessCostsLoop(ic, cost, k, to_k, usr_col, error_found) ==
  IF k >= to_k + 1 THEN error_found
  ELSE LET usr == UsrIx(ic, k, usr_col)
       IN  IF MaskedOut(ic, k)
           THEN AssessCostsLoop(ic, cost, k + 1, to_k, usr, error_found)
           ELSE AssessCostsLoop(ic, cost, k + 1, to_k, usr,
                                IF ~LegalCost(cost[usr + 1])
                                THEN ~kHighsAllowInfiniteCosts
                                ELSE error_found)

\* assessCosts returns a status and never writes cost
assessCosts(ic, cost) ==
  IF ~assessIndexCollection(ic) THEN interpretCallStatus(kError, kOk)
  ELSE LET lim == limitsForIndexCollection(ic)
       IN  IF ~lim.ok THEN interpretCallStatus(kError, kOk)
           ELSE IF lim.from_k > lim.to_k THEN kOk
           ELSE IF AssessCostsLoop(ic, cost, lim.from_k, lim.to_k, -1, FALSE)
           THEN kError
           ELSE kOk

\* lower[usr_ix] after the test for a finite lower bound treated as -Infinity
PromotedLower(lower) ==
  IF ~highs_isInfinity(Neg(lower)) /\ Le(lower, Neg(infinite_bound))
  THEN NInf ELSE lower

\* upper[usr_ix] after the test for a finite upper bound treated as Infinity
PromotedUpper(upper) ==
  IF ~highs_isInfinity(upper) /\ Ge(upper, infinite_bound) THEN PInf ELSE upper

\* One pass of the loop of assessBounds;
\* s = [lower, upper, error_found, warning_found]
AssessBoundsStep(s, usr_ix) ==
  LET l == PromotedLower(s.lower[usr_ix + 1])
      u == PromotedUpper(s.upper[usr_ix + 1])
      legalLowerUpperBound == Le(l, u)
      legalLowerBound == Lt(l, infinite_bound)
      legalUpperBound == Gt(u, Neg(infinite_bound))
  IN  [lower |-> [s.lower EXCEPT ![usr_ix + 1] = l],
       upper |-> [s.upper EXCEPT ![usr_ix + 1] = u],
       error_found |-> s.error_found \/ ~legalLowerBound \/ ~legalUpperBound,
       warning_found |-> s.warning_found \/ ~legalLowerUpperBound]

RECURSIVE AssessBoundsLoop(_, _, _, _, _)
AssessBoundsLoop(s, ic, k, to_k, usr_ix) ==
  IF k >= to_k + 1 THEN s
  ELSE LET usr == UsrIx(ic, k, usr_ix)
       IN  AssessBoundsLoop(IF MaskedOut(ic, k) THEN s ELSE AssessBoundsStep(s, usr),
                            ic, k + 1, to_k, usr)

\* The status assessBounds returns from error_found and warning_found
BoundsStatus(error_found, warning_found) ==
  IF error_found THEN kError ELSE IF warning_found THEN kWarning ELSE kOk

\* assessBounds writes lower and upper in place and returns a status
assessBounds(ic, lower, upper) ==
  LET same == [status |-> kOk, lower |-> lower, upper |-> upper]
  IN  IF ~assessIndexCollection(ic)
      THEN [same EXCEPT !.status = interpretCallStatus(kError, kOk)]
      ELSE LET lim == limitsForIndexCollection(ic)
           IN  IF ~lim.ok
               THEN [same EXCEPT !.status = interpretCallStatus(kError, kOk)]
               ELSE IF lim.from_k > lim.to_k THEN same
               ELSE LET s == AssessBoundsLoop(
                               [lower |-> lower, upper |-> upper,
                                error_found |-> FALSE, warning_found |-> FALSE],
                               ic, lim.from_k, lim.to_k, -1)
                    IN  [status |-> BoundsStatus(s.error_found, s.warning_found),
                         lower |-> s.lower, upper |-> s.upper]

\* HighsLp::dimensionsOk: the vectors and the matrix have the sizes that
\* num_col_ and num_row_ give
dimensionsOk(l) ==
  /\ Len(l.col_cost_) = l.num_col_
  /\ Len(l.col_lower_) = l.num_col_
  /\ Len(l.col_upper_) = l.num_col_
  /\ Len(l.row_lower_) = l.num_row_
  /\ Len(l.row_upper_) = l.num_row_
  /\ Len(l.a_matrix_.start_) = l.num_col_ + 1
  /\ Len(l.a_matrix_.index_) >= l.a_matrix_.start_[l.num_col_ + 1]
  /\ Len(l.a_matrix_.value_) >= l.a_matrix_.start_[l.num_col_ + 1]

\* The entries (positions of the code) of column col of a matrix
ColumnEntries(m, col) == m.start_[col + 1] .. (m.start_[col + 2] - 1)

\* if (abs_value <= small_matrix_value): the entry is removed
SmallValue(v) == Le(Fabs(v), small_matrix_value)

\* HighsSparseMatrix::assess finds an index outside the rows, an index twice
\* in a column or a value of magnitude >= large_matrix_value
MatrixAssessError(m, nc, nr) ==
  \/ \E col \in 0 .. (nc - 1) : \E el \in ColumnEntries(m, col) :
       \/ m.index_[el + 1] < 0
       \/ m.index_[el + 1] >= nr
       \/ Ge(Fabs(m.value_[el + 1]), large_matrix_value)
       \/ \E other \in ColumnEntries(m, col) :
            other # el /\ m.index_[other + 1] = m.index_[el + 1]

\* The matrix without its small values
MatrixWithoutSmall(m, nc) ==
  LET num_nz == m.start_[nc + 1]
      kept(n) == {el \in 1 .. n : ~SmallValue(m.value_[el])}
      pairs == [el \in 1 .. num_nz |-> <<m.index_[el], m.value_[el]>>]
      left == SelectSeq(pairs, LAMBDA e : ~SmallValue(e[2]))
  IN  [start_ |-> [j \in 1 .. (nc + 1) |-> Cardinality(kept(m.start_[j]))],
       index_ |-> [el \in 1 .. Len(left) |-> left[el][1]],
       value_ |-> [el \in 1 .. Len(left) |-> left[el][2]]]

\* HighsSparseMatrix::assess
MatrixAssess(m, nc, nr) ==
  IF MatrixAssessError(m, nc, nr) THEN [status |-> kError, a_matrix_ |-> m]
  ELSE LET w == MatrixWithoutSmall(m, nc)
       IN  [status |-> IF Len(w.index_) < m.start_[nc + 1] THEN kWarning ELSE kOk,
            a_matrix_ |-> w]

\* if ((HighsInt)lp.a_matrix_.index_.size() > lp_num_nz) ... resize(lp_num_nz)
ResizedToNz(m, nc) ==
  LET lp_num_nz == m.start_[nc + 1]
  IN  [m EXCEPT !.index_ = IF Len(@) > lp_num_nz THEN SubSeq(@, 1, lp_num_nz) ELSE @,
                !.value_ = IF Len(@) > lp_num_nz THEN SubSeq(@, 1, lp_num_nz) ELSE @]

\* if (return_status == kError) return_status = kError; else return_status = kOk
AssessLpStatus(return_status) == IF return_status = kError THEN kError ELSE kOk

\* assessLp: the status returned and the LP left behind
assessLp(l) ==
  IF ~dimensionsOk(l) THEN [status |-> kError, lp |-> l]
  ELSE IF l.num_col_ = 0 THEN [status |-> kOk, lp |-> l]
  ELSE
    LET cols == Interval(l.num_col_, 0, l.num_col_ - 1)
        s1 == interpretCallStatus(assessCosts(cols, l.col_cost_), kOk)
        cb == assessBounds(cols, l.col_lower_, l.col_upper_)
        s2 == interpretCallStatus(cb.status, s1)
        l2 == [l EXCEPT !.col_lower_ = cb.lower, !.col_upper_ = cb.upper]
        rows == Interval(l.num_row_, 0, l.num_row_ - 1)
        rb == IF l.num_row_ # 0 THEN assessBounds(rows, l.row_lower_, l.row_upper_)
              ELSE [status |-> kOk, lower |-> l.row_lower_, upper |-> l.row_upper_]
        s3 == interpretCallStatus(rb.status, s2)
        l3 == [l2 EXCEPT !.row_lower_ = rb.lower, !.row_upper_ = rb.upper]
        ma == MatrixAssess(l.a_matrix_, l.num_col_, l.num_row_)
        s4 == interpretCallStatus(ma.status, s3)
        l4 == [l3 EXCEPT !.a_matrix_ = ma.a_matrix_]
    IN  IF s1 = kError THEN [status |-> kError, lp |-> l]
        ELSE IF s2 = kError THEN [status |-> kError, lp |-> l2]
        ELSE IF s3 = kError THEN [status |-> kError, lp |-> l3]
        ELSE IF s4 = kError THEN [status |-> kError, lp |-> l4]
        ELSE [status |-> AssessLpStatus(s4),
              lp |-> [l4 EXCEPT !.a_matrix_ = ResizedToNz(@, l.num_col_)]]

(***************************************************************************)
(* cleanBounds                                                             *)
(***************************************************************************)
\* A residual at the tolerance taken to be beyond it
BeyondToleranceOrAt(residual) == Ge(residual, primal_feasibility_tolerance)

\* if (residual > options.primal_feasibility_tolerance)
BeyondTolerance(residual) == Gt(residual, primal_feasibility_tolerance)

\* One pass of a loop of cleanBounds; s = [lower, upper, num_change, error]
CleanBoundsStep(s, i) ==
  LET residual == Sub(s.lower[i + 1], s.upper[i + 1])
      mid == Mul(Q(1, 2), Add(s.lower[i + 1], s.upper[i + 1]))
  IN  IF BeyondTolerance(residual) THEN [s EXCEPT !.error = TRUE]
      ELSE IF Gt(residual, Zero)
      THEN [s EXCEPT !.num_change = @ + 1, !.lower[i + 1] = mid,
                     !.upper[i + 1] = mid]
      ELSE s

\* A loop of cleanBounds, left by the return of an error
RECURSIVE CleanBoundsLoop(_, _, _)
CleanBoundsLoop(s, i, n) ==
  IF s.error \/ i >= n THEN s
  ELSE CleanBoundsLoop(CleanBoundsStep(s, i), i + 1, n)

cleanBounds(l) ==
  LET c == CleanBoundsLoop([lower |-> l.col_lower_, upper |-> l.col_upper_,
                            num_change |-> 0, error |-> FALSE], 0, l.num_col_)
      r == CleanBoundsLoop([lower |-> l.row_lower_, upper |-> l.row_upper_,
                            num_change |-> c.num_change, error |-> FALSE],
                           0, l.num_row_)
      lc == [l EXCEPT !.col_lower_ = c.lower, !.col_upper_ = c.upper]
  IN  IF c.error THEN [status |-> kError, lp |-> lc]
      ELSE IF r.error
      THEN [status |-> kError,
            lp |-> [lc EXCEPT !.row_lower_ = r.lower, !.row_upper_ = r.upper]]
      ELSE [status |-> IF r.num_change # 0 THEN kWarning ELSE kOk,
            lp |-> [lc EXCEPT !.row_lower_ = r.lower, !.row_upper_ = r.upper]]

(***************************************************************************)
(* deleteLpCols and deleteLpRows                                           *)
(***************************************************************************)
\* The last set entry of the run of consecutive indices that holds entry cur
\* (positions of the code): s = [out_to, cur]
RECURSIVE SetRun(_, _, _)
SetRun(ic, s, set_entry) ==
  IF set_entry >= ic.set_num_entries_ THEN s
  ELSE IF ic.set_[set_entry + 1] > s.out_to + 1 THEN s
  ELSE SetRun(ic, [out_to |-> ic.set_[s.cur + 1], cur |-> s.cur + 1], set_entry + 1)

\* The first index from ix on whose mask entry is wanted, less one; the last
\* index of all when there is none
RECURSIVE MaskRun(_, _, _)
MaskRun(ic, ix, wanted) ==
  IF ix >= ic.dimension_ THEN ic.dimension_ - 1
  ELSE IF ic.mask_[ix + 1] = wanted THEN ix - 1
  ELSE MaskRun(ic, ix + 1, wanted)

\* The ranges of a set whose run of consecutive entries from first on is run
SetOutIn(ic, first, run) ==
  [delete_from |-> first, delete_to |-> run.out_to,
   keep_from |-> run.out_to + 1,
   keep_to |-> IF run.cur < ic.set_num_entries_ THEN ic.set_[run.cur + 1] - 1
               ELSE ic.dimension_ - 1,
   current_set_entry |-> run.cur]

\* The ranges of a mask whose range to delete ends at out_to
MaskOutIn(ic, s, out_to) ==
  [s EXCEPT !.delete_from = s.keep_to + 1, !.delete_to = out_to,
            !.keep_from = out_to + 1, !.keep_to = MaskRun(ic, out_to + 1, TRUE)]

\* updateIndexCollectionOutInIndex: the next range of indices to delete and
\* the range to keep that follows it; s = [delete_from, delete_to, keep_from,
\* keep_to, current_set_entry]
updateIndexCollectionOutInIndex(ic, s) ==
  IF ic.is_interval_
  THEN [s EXCEPT !.delete_from = ic.from_, !.delete_to = ic.to_,
                 !.keep_from = ic.to_ + 1, !.keep_to = ic.dimension_ - 1]
  ELSE IF ic.is_set_
  THEN SetOutIn(ic, ic.set_[s.current_set_entry + 1],
                SetRun(ic, [out_to |-> ic.set_[s.current_set_entry + 1],
                            cur |-> s.current_set_entry + 1],
                       s.current_set_entry + 1))
  ELSE MaskOutIn(ic, s, MaskRun(ic, s.keep_to + 1, FALSE))

\* for (col = keep_from_col; col <= keep_to_col; col++): each vector of data
\* takes its entry col at new_num; d = [data, new_num]
RECURSIVE CopyKept(_, _, _)
CopyKept(d, col, keep_to) ==
  IF col > keep_to THEN d
  ELSE CopyKept([data |-> [v \in DOMAIN d.data |->
                             [d.data[v] EXCEPT ![d.new_num + 1] = d.data[v][col + 1]]],
                 new_num |-> d.new_num + 1],
                col + 1, keep_to)

\* The columns before the first deleted one forgotten
InitialKeptNone(k, from_k, delete_from, new_num) == new_num

\* if (k == from_k) new_num_col = delete_from_col
InitialKept(k, from_k, delete_from, new_num) ==
  IF k = from_k THEN delete_from ELSE new_num

\* for (k = from_k; k <= to_k; k++) of deleteColsFromLpVectors and of
\* deleteRowsFromLpVectors, left by its breaks; d = [data, new_num] and s as
\* updateIndexCollectionOutInIndex leaves it
RECURSIVE DeleteLoop(_, _, _, _, _, _, _)
RECURSIVE DeletePass(_, _, _, _, _, _, _)
DeleteLoop(ic, dim, d, s, k, from_k, to_k) ==
  IF k > to_k THEN d
  ELSE DeletePass(ic, dim, d, updateIndexCollectionOutInIndex(ic, s), k, from_k, to_k)

\* The pass k of the loop, after updateIndexCollectionOutInIndex left u
DeletePass(ic, dim, d, u, k, from_k, to_k) ==
  IF u.delete_to >= dim - 1
  THEN [d EXCEPT !.new_num = InitialKept(k, from_k, u.delete_from, @)]
  ELSE IF u.keep_to >= dim - 1
  THEN CopyKept([d EXCEPT !.new_num = InitialKept(k, from_k, u.delete_from, @)],
                u.keep_from, u.keep_to)
  ELSE DeleteLoop(ic, dim,
                  CopyKept([d EXCEPT !.new_num = InitialKept(k, from_k, u.delete_from, @)],
                           u.keep_from, u.keep_to),
                  u, k + 1, from_k, to_k)

\* resize(new_num_col) of every vector
Resized(d) ==
  [status |-> kOk,
   data |-> [v \in DOMAIN d.data |-> SubSeq(d.data[v], 1, d.new_num)],
   new_num |-> d.new_num]

\* The vectors of data without the indices of the collection: the status
\* returned, the vectors left and the number of indices left
DeleteFromVectors(ic, dim, data) ==
  IF ~assessIndexCollection(ic)
  THEN [status |-> interpretCallStatus(kError, kOk), data |-> data, new_num |-> dim]
  ELSE IF ~limitsForIndexCollection(ic).ok
  THEN [status |-> interpretCallStatus(kError, kOk), data |-> data, new_num |-> dim]
  ELSE IF ic.is_set_
          /\ ~increasingSetOk(ic.set_, ic.set_num_entries_, 0, dim - 1, TRUE)
  THEN [status |-> kError, data |-> data, new_num |-> dim]
  ELSE IF limitsForIndexCollection(ic).from_k > limitsForIndexCollection(ic).to_k
  THEN [status |-> kOk, data |-> data, new_num |-> dim]
  ELSE Resized(DeleteLoop(ic, dim, [data |-> data, new_num |-> 0],
                          [delete_from |-> 0, delete_to |-> 0, keep_from |-> 0,
                           keep_to |-> -1, current_set_entry |-> 0],
                          limitsForIndexCollection(ic).from_k,
                          limitsForIndexCollection(ic).from_k,
                          limitsForIndexCollection(ic).to_k))

\* The LP with the column vectors that the deletion left
ColsLeft(l, have_names, r) ==
  [status |-> r.status, new_num_col |-> r.new_num,
   lp |-> [l EXCEPT !.col_cost_ = r.data[1], !.col_lower_ = r.data[2],
                    !.col_upper_ = r.data[3],
                    !.col_names_ = IF have_names THEN r.data[4] ELSE @]]

\* deleteColsFromLpVectors: the status, the LP left and new_num_col
deleteColsFromLpVectors(l, ic) ==
  ColsLeft(l, Len(l.col_names_) # 0,
           DeleteFromVectors(ic, l.num_col_,
             IF Len(l.col_names_) # 0
             THEN <<l.col_cost_, l.col_lower_, l.col_upper_, l.col_names_>>
             ELSE <<l.col_cost_, l.col_lower_, l.col_upper_>>))

\* The LP with the row vectors that the deletion left
RowsLeft(l, have_names, r) ==
  [status |-> r.status, new_num_row |-> r.new_num,
   lp |-> [l EXCEPT !.row_lower_ = r.data[1], !.row_upper_ = r.data[2],
                    !.row_names_ = IF have_names THEN r.data[3] ELSE @]]

\* deleteRowsFromLpVectors: the status, the LP left and new_num_row
deleteRowsFromLpVectors(l, ic) ==
  RowsLeft(l, Len(l.row_names_) # 0,
           DeleteFromVectors(ic, l.num_row_,
             IF Len(l.row_names_) # 0 THEN <<l.row_lower_, l.row_upper_, l.row_names_>>
             ELSE <<l.row_lower_, l.row_upper_>>))

\* The indices a valid index collection names
Out(ic) ==
  IF ic.is_interval_ THEN ic.from_ .. ic.to_
  ELSE IF ic.is_set_ THEN {ic.set_[k] : k \in 1 .. ic.set_num_entries_}
  ELSE {ix \in 0 .. (ic.dimension_ - 1) : ic.mask_[ix + 1]}

\* The entries <<row, value>> of the columns of a matrix
MatrixColumns(m, nc) ==
  [col \in 1 .. nc |->
     [el \in 1 .. (m.start_[col + 1] - m.start_[col]) |->
        <<m.index_[m.start_[col] + el], m.value_[m.start_[col] + el]>>]]

\* All the entries of columns, one column after the other
RECURSIVE Flattened(_)
Flattened(columns) ==
  IF columns = <<>> THEN <<>> ELSE Head(columns) \o Flattened(Tail(columns))

\* The matrix of the given columns
MatrixOfEntries(columns, entries) ==
  [start_ |-> [j \in 1 .. (Len(columns) + 1) |->
                 Len(Flattened(SubSeq(columns, 1, j - 1)))],
   index_ |-> [el \in 1 .. Len(entries) |-> entries[el][1]],
   value_ |-> [el \in 1 .. Len(entries) |-> entries[el][2]]]

MatrixOfColumns(columns) == MatrixOfEntries(columns, Flattened(columns))

\* The members of a set of numbers in increasing order
RECURSIVE Increasing(_)
Increasing(S) ==
  IF S = {} THEN <<>>
  ELSE LET least == CHOOSE x \in S : \A y \in S : x <= y
       IN  <<least>> \o Increasing(S \ {least})

\* The columns at the positions kept
KeptColumns(columns, kept) == [k \in 1 .. Len(kept) |-> columns[kept[k]]]

\* HighsSparseMatrix::deleteCols: the matrix without the columns named
MatrixDeleteCols(m, nc, ic) ==
  [status |-> kOk,
   a_matrix_ |->
     MatrixOfColumns(KeptColumns(MatrixColumns(m, nc),
                                 Increasing({col \in 1 .. nc : (col - 1) \notin Out(ic)})))]

\* The entries of a column that are in none of the rows named, the rows
\* left numbered anew
ColumnWithoutRows(column, ic) ==
  [el \in 1 .. Len(column) |->
     <<Cardinality({r \in 0 .. (column[el][1] - 1) : r \notin Out(ic)}),
       column[el][2]>>]

\* HighsSparseMatrix::deleteRows: the matrix without the entries of the rows
\* named, the rows left numbered anew
MatrixDeleteRows(m, nc, nr, ic) ==
  [status |-> kOk,
   a_matrix_ |->
     MatrixOfColumns([col \in 1 .. nc |->
                        ColumnWithoutRows(SelectSeq(MatrixColumns(m, nc)[col],
                                                    LAMBDA e : e[1] \notin Out(ic)),
                                          ic)])]

\* An error of a call that is not returned
FailedNever(return_status) == FALSE

\* if (return_status == HighsStatus::kError) return return_status
Failed(return_status) == return_status = kError

\* deleteLpCols after deleteColsFromLpVectors has left v
DeleteColsOfMatrix(l, ic, v) ==
  IF Failed(interpretCallStatus(v.status, kOk))
  THEN [status |-> interpretCallStatus(v.status, kOk), lp |-> l]
  ELSE [status |-> kOk,
        lp |-> [v.lp EXCEPT !.a_matrix_ =
                              MatrixDeleteCols(l.a_matrix_, l.num_col_, ic).a_matrix_,
                            !.num_col_ = v.new_num_col]]

\* deleteLpCols: the status returned and the LP left behind
deleteLpCols(l, ic) == DeleteColsOfMatrix(l, ic, deleteColsFromLpVectors(l, ic))

\* deleteLpRows after deleteRowsFromLpVectors has left v
DeleteRowsOfMatrix(l, ic, v) ==
  IF Failed(interpretCallStatus(v.status, kOk))
  THEN [status |-> interpretCallStatus(v.status, kOk), lp |-> l]
  ELSE [status |-> kOk,
        lp |-> [v.lp EXCEPT !.a_matrix_ =
                              MatrixDeleteRows(l.a_matrix_, l.num_col_, l.num_row_,
                                               ic).a_matrix_,
                            !.num_row_ = v.new_num_row]]

\* deleteLpRows: the status returned and the LP left behind
deleteLpRows(l, ic) == DeleteRowsOfMatrix(l, ic, deleteRowsFromLpVectors(l, ic))

(***************************************************************************)
(* changeLpMatrixCoefficient and getLpMatrixCoefficient                    *)
(***************************************************************************)
\* row < 0 || row > lp.num_row_, and the same for col
ChangeRejects(ix, dim) == ix < 0 \/ ix > dim

\* Xrow < 0 || Xrow >= lp.num_row_, and the same for Xcol
GetRejects(ix, dim) == ix < 0 \/ ix >= dim

\* start_[col + 1], which lies past the end of start_ for col = num_col_:
\* the read then gives whatever follows the vector in memory, past
MatrixStartAfter(m, col, past) ==
  IF col + 2 <= Len(m.start_) THEN m.start_[col + 2] ELSE past

\* The entries el of start_[col] .. last - 1 with index_[el] == row
ElementsOfRow(m, col, last, row) ==
  {el \in m.start_[col + 1] .. (last - 1) : m.index_[el + 1] = row}

\* vector.resize(n): cut, or filled up with zeros
ResizedVector(vector, n, zero) ==
  [el \in 1 .. n |-> IF el <= Len(vector) THEN vector[el] ELSE zero]

\* for (el = new_num_nz - 1; el > changeElement; el--) vector[el] = vector[el - 1],
\* then vector[changeElement] = entry
ShiftedIn(vector, changeElement, entry) ==
  [el \in 1 .. Len(vector) |->
     IF el - 1 > changeElement THEN vector[el - 1]
     ELSE IF el - 1 = changeElement THEN entry
     ELSE vector[el]]

\* The matrix with a new entry at changeElement of column col
WithNewElement(m, nc, row, col, new_value, changeElement) ==
  [start_ |-> [i \in 1 .. Len(m.start_) |->
                 IF i - 1 >= col + 1 /\ i - 1 <= nc THEN m.start_[i] + 1
                 ELSE m.start_[i]],
   index_ |-> ShiftedIn(ResizedVector(m.index_, m.start_[nc + 1] + 1, 0),
                        changeElement, row),
   value_ |-> ShiftedIn(ResizedVector(m.value_, m.start_[nc + 1] + 1, Zero),
                        changeElement, new_value)]

\* The matrix with the value of the entry at changeElement replaced
WithChangedElement(m, row, new_value, changeElement) ==
  [m EXCEPT !.index_[changeElement + 1] = row,
            !.value_[changeElement + 1] = new_value]

\* changeLpMatrixCoefficient once the indices are accepted: found holds the
\* entries of column col in row row, and last = start_[col + 1]
ChangedMatrix(m, nc, row, col, new_value, last, found) ==
  IF found # {}
  THEN WithChangedElement(m, row, new_value,
                          CHOOSE el \in found : \A other \in found : el <= other)
  ELSE WithNewElement(m, nc, row, col, new_value, last)

\* changeLpMatrixCoefficient: the status returned and the LP left behind,
\* where a read past the end of start_ gives past
changeLpMatrixCoefficient(l, row, col, new_value, past) ==
  IF ChangeRejects(row, l.num_row_) THEN [status |-> kError, lp |-> l]
  ELSE IF ChangeRejects(col, l.num_col_) THEN [status |-> kError, lp |-> l]
  ELSE [status |-> kOk,
        lp |-> [l EXCEPT !.a_matrix_ =
                  ChangedMatrix(@, l.num_col_, row, col, new_value,
                                MatrixStartAfter(@, col, past),
                                ElementsOfRow(@, col, MatrixStartAfter(@, col, past),
                                              row))]]

\* The value getLpMatrixCoefficient gives for the entries found
ValueOfElements(m, found) ==
  IF found = {} THEN Zero
  ELSE m.value_[(CHOOSE el \in found : \A other \in found : el <= other) + 1]

\* getLpMatrixCoefficient: the status returned and *val
getLpMatrixCoefficient(l, Xrow, Xcol, val) ==
  IF GetRejects(Xrow, l.num_row_) THEN [status |-> kError, val |-> val]
  ELSE IF GetRejects(Xcol, l.num_col_) THEN [status |-> kError, val |-> val]
  ELSE [status |-> kOk,
        val |-> ValueOfElements(l.a_matrix_,
                  ElementsOfRow(l.a_matrix_, Xcol, l.a_matrix_.start_[Xcol + 2], Xrow))]

(***************************************************************************)
(* writeBasisFile and readBasisFile                                        *)
(***************************************************************************)
\* The major version of the library, which the writer puts in the first line
HIGHS_VERSION_MAJOR == 1

endl == <<"\n">>

Digits == <<"0", "1", "2", "3", "4", "5", "6", "7", "8", "9">>

\* outFile << n for an integer n: its decimal digits, after a sign
RECURSIVE FormatInt(_)
FormatInt(n) ==
  IF n < 0 THEN <<"-">> \o FormatInt(-n)
  ELSE IF n < 10 THEN <<Digits[n + 1]>>
  ELSE FormatInt(n \div 10) \o <<Digits[(n % 10) + 1]>>

\* outFile << status << "" : a status with nothing after it
StatusNotSeparated(status) == FormatInt(status)

\* outFile << (HighsInt)status << " "
StatusWritten(status) == FormatInt(status) \o <<" ">>

\* for (const auto& status : ...) outFile << (HighsInt)status << " "
RECURSIVE StatusesWritten(_)
StatusesWritten(statuses) ==
  IF statuses = <<>> THEN <<>>
  ELSE StatusWritten(Head(statuses)) \o StatusesWritten(Tail(statuses))

\* writeBasisFile: the status returned and the text of the file, which is
\* left as it was when the basis is invalid
writeBasisFile(b, text) ==
  IF b.valid = FALSE THEN [status |-> kError, text |-> text]
  ELSE [status |-> kOk,
        text |-> <<"H", "i", "G", "H", "S", " ", "V", "e", "r", "s", "i", "o", "n", " ">>
                   \o FormatInt(HIGHS_VERSION_MAJOR) \o endl
                   \o FormatInt(Len(b.col_status)) \o <<" ">>
                   \o FormatInt(Len(b.row_status)) \o endl
                   \o StatusesWritten(b.col_status) \o endl
                   \o StatusesWritten(b.row_status) \o endl
                   \o endl]

IsSpace(c) == c = " " \/ c = "\n"

IsDigit(c) == \E d \in 1 .. Len(Digits) : Digits[d] = c

DigitValue(c) == (CHOOSE d \in 1 .. Len(Digits) : Digits[d] = c) - 1

\* The first position from pos on that holds no white space
RECURSIVE SkipSpace(_, _)
SkipSpace(text, pos) ==
  IF pos <= Len(text) /\ IsSpace(text[pos]) THEN SkipSpace(text, pos + 1) ELSE pos

\* The first position from pos on that holds white space
RECURSIVE EndOfWord(_, _)
EndOfWord(text, pos) ==
  IF pos <= Len(text) /\ ~IsSpace(text[pos]) THEN EndOfWord(text, pos + 1) ELSE pos

\* The first position from pos on that holds no digit
RECURSIVE EndOfDigits(_, _)
EndOfDigits(text, pos) ==
  IF pos <= Len(text) /\ IsDigit(text[pos]) THEN EndOfDigits(text, pos + 1) ELSE pos

\* The number of the digits text[from .. to]
RECURSIVE NumberOf(_, _, _)
NumberOf(text, from, to) ==
  IF from > to THEN 0
  ELSE 10 * NumberOf(text, from, to - 1) + DigitValue(text[to])

\* The stream of a file that has just been opened
Opened == [pos |-> 1, fail |-> FALSE, eof |-> FALSE]

\* inFile >> string with the word found to start at from
WordFrom(text, st, from) ==
  IF from > Len(text) THEN [pos |-> from, fail |-> TRUE, eof |-> TRUE]
  ELSE [pos |-> EndOfWord(text, from), fail |-> FALSE,
        eof |-> EndOfWord(text, from) > Len(text)]

\* inFile >> string: the stream after it
ReadString(text, st) ==
  IF st.fail THEN st ELSE WordFrom(text, st, SkipSpace(text, st.pos))

\* inFile >> int with the digits found at from .. to - 1, after a sign or not
DigitsRead(text, value, negative, from, to) ==
  IF to = from
  THEN [st |-> [pos |-> from, fail |-> TRUE, eof |-> from > Len(text)], value |-> 0]
  ELSE [st |-> [pos |-> to, fail |-> FALSE, eof |-> to > Len(text)],
        value |-> IF negative THEN -NumberOf(text, from, to - 1)
                  ELSE NumberOf(text, from, to - 1)]

\* inFile >> int with the number found to start at from
IntFrom(text, value, from) ==
  IF from <= Len(text) /\ text[from] = "-"
  THEN DigitsRead(text, value, TRUE, from + 1, EndOfDigits(text, from + 1))
  ELSE DigitsRead(text, value, FALSE, from, EndOfDigits(text, from))

\* inFile >> value for an integer: the stream after it and the value, which
\* is left as it was when the stream had failed before
ReadInt(text, st, value) ==
  IF st.fail THEN [st |-> st, value |-> value]
  ELSE IntFrom(text, value, SkipSpace(text, st.pos))

\* (HighsBasisStatus)int_status
HighsBasisStatus(int_status) == int_status % 256

\* inFile >> int_status; status[i] = (HighsBasisStatus)int_status, for the
\* statuses from i on; s = [st, value, status]
RECURSIVE ReadStatuses(_, _, _, _)
ReadStatusInto(text, s, i, n, r) ==
  ReadStatuses(text,
               [st |-> r.st, value |-> r.value,
                status |-> [s.status EXCEPT ![i + 1] = HighsBasisStatus(r.value)]],
               i + 1, n)

ReadStatuses(text, s, i, n) ==
  IF i >= n THEN s ELSE ReadStatusInto(text, s, i, n, ReadInt(text, s.st, s.value))

\* readBasisFile after the statuses of the rows have been read into r
AfterRows(b, c, r) ==
  [status |-> IF r.st.eof THEN kError ELSE kOk,
   basis |-> [b EXCEPT !.col_status = c.status, !.row_status = r.status]]

\* readBasisFile after the statuses of the columns have been read into c
AfterCols(b, text, numRow, c) ==
  AfterRows(b, c, ReadStatuses(text, [c EXCEPT !.status = b.row_status], 0, numRow))

\* a reader that accepts every dimension
DimensionAccepted(read, size) == FALSE

\* the test of a dimension read from the file against the size of the host basis
DimensionMismatch(read, size) == read # size

\* readBasisFile after numCol and numRow have been read
AfterDimensions(b, text, numCol, numRow) ==
  IF DimensionMismatch(numCol.value, Len(b.col_status))
  THEN [status |-> kError, basis |-> b]
  ELSE IF DimensionMismatch(numRow.value, Len(b.row_status))
  THEN [status |-> kError, basis |-> b]
  ELSE AfterCols(b, text, numRow.value,
                 ReadStatuses(text, [st |-> numRow.st, value |-> numRow.value,
                                     status |-> b.col_status] , 0, numCol.value))

\* readBasisFile after numCol has been read
AfterNumCol(b, text, numCol) ==
  AfterDimensions(b, text, numCol, ReadInt(text, numCol.st, numCol.value))

\* readBasisFile after highs_version_number has been read
AfterVersion(b, text, version) ==
  IF version.value = 1
  THEN AfterNumCol(b, text, ReadInt(text, version.st, version.value))
  ELSE [status |-> kError, basis |-> b]

\* readBasisFile: the status returned and the basis left behind; a file of
\* no text cannot be opened, and uninit is what an integer that was never
\* assigned holds
readBasisFile(b, text, uninit) ==
  IF text = <<>> THEN [status |-> kError, basis |-> b]
  ELSE AfterVersion(b, text,
                    ReadInt(text, ReadString(text, ReadString(text, Opened)), uninit))

(***************************************************************************)
(* Scaling an LP (HighsLpUtils.cpp).  The costs and the bounds are doubles *)
(* and every product and quotient is rounded: the model keeps a binary     *)
(* format of MantissaBits significant bits whose smallest normal number is *)
(* 2^-MinExponent, with gradual underflow below it, rounding to nearest    *)
(* with ties to even, and overflow to an infinity beyond FloatMax.         *)
(***************************************************************************)
MantissaBits == 3

MinExponent == 2

\* 2^k as a double
Pow2(k) == IF k >= 0 THEN R(2 ^ k) ELSE Q(1, 2 ^ (0 - k))

\* the exponent of the finite a > 0, not below that of the smallest normal
\* number: the e >= -MinExponent with 2^e <= a < 2^(e+1), if there is one
RECURSIVE ExponentFrom(_, _)
ExponentFrom(a, e) ==
  IF Ge(a, R(2)) THEN ExponentFrom(Div(a, R(2)), e + 1)
  ELSE IF Lt(a, R(1)) /\ e > 0 - MinExponent THEN ExponentFrom(Mul(a, R(2)), e - 1)
  ELSE e

\* the distance of the doubles about the finite a > 0
Quantum(a) == Pow2(ExponentFrom(a, 0) - MantissaBits + 1)

\* the integer nearest to the finite m >= 0, the even one of two
RoundHalfEven(m) ==
  LET f == m[1] \div m[2]
      r == m[1] % m[2]
  IN  IF 2 * r < m[2] THEN f
      ELSE IF 2 * r > m[2] THEN f + 1
      ELSE IF f % 2 = 0 THEN f ELSE f + 1

RoundedTo(x, q) == Mul(R(SignInt(x[1]) * RoundHalfEven(Div(Fabs(x), q))), q)

\* the double of the real x
Fl(x) ==
  IF ~IsFinite(x) \/ x = Zero THEN x
  ELSE Saturate(RoundedTo(x, Quantum(Fabs(x))))

\* x is a double
IsDouble(x) == Fl(x) = x

\* x is zero or a normal number: a finite double no product with a power of
\* two changes but by its exponent
IsNormal(x) == IsFinite(x) /\ (x = Zero \/ Ge(Fabs(x), Pow2(0 - MinExponent)))

\* s is 2^k for an integer k
IsPowerOfTwo(s) ==
  IsFinite(s) /\ \E k \in 0 .. 10 : s = R(2 ^ k) \/ s = Q(1, 2 ^ k)

\* x * y and x / y of doubles
FMul(x, y) == Fl(Mul(x, y))

FDiv(x, y) == Fl(Div(x, y))

\* a cost that is set to the scale factor
ScaledCostAssigned(cost, colScale) == colScale

\* lp.col_cost_[ml_col] *= colScale[ml_col]
ScaledCost(cost, colScale) == FMul(cost, colScale)

\* the lower and the upper bound of a column after applyScalingToLpColBounds
ScaledColLower(lower, colScale) ==
  IF ~highs_isInfinity(Neg(lower)) THEN FDiv(lower, colScale) ELSE lower

ScaledColUpper(upper, colScale) ==
  IF ~highs_isInfinity(upper) THEN FDiv(upper, colScale) ELSE upper

\* the lower and the upper bound of a row after applyScalingToLpRowBounds
ScaledRowLower(lower, rowScale) ==
  IF ~highs_isInfinity(Neg(lower)) THEN FMul(lower, rowScale) ELSE lower

ScaledRowUpper(upper, rowScale) ==
  IF ~highs_isInfinity(upper) THEN FMul(upper, rowScale) ELSE upper

\* the columns or rows the loop of a scaling function visits
ScaledIndices(ic) ==
  LET lim == limitsForIndexCollection(ic)
  IN  IF ic.is_interval_ \/ ic.is_mask_
      THEN {k \in lim.from_k .. lim.to_k : ic.is_mask_ => ic.mask_[k + 1] # 0}
      ELSE {ic.set_[k + 1] : k \in lim.from_k .. lim.to_k}

applyScalingToLpColCost(l, colScale, ic) ==
  IF ~assessIndexCollection(ic)
  THEN [status |-> interpretCallStatus(kError, kOk), lp |-> l]
  ELSE [status |-> kOk,
        lp |-> [l EXCEPT !.col_cost_ =
                  [j \in 1 .. Len(l.col_cost_) |->
                     IF j - 1 \in ScaledIndices(ic)
                     THEN ScaledCost(l.col_cost_[j], colScale[j])
                     ELSE l.col_cost_[j]]]]

applyScalingToLpColBounds(l, colScale, ic) ==
  IF ~assessIndexCollection(ic)
  THEN [status |-> interpretCallStatus(kError, kOk), lp |-> l]
  ELSE [status |-> kOk,
        lp |-> [l EXCEPT
                  !.col_lower_ =
                    [j \in 1 .. Len(l.col_lower_) |->
                       IF j - 1 \in ScaledIndices(ic)
                       THEN ScaledColLower(l.col_lower_[j], colScale[j])
                       ELSE l.col_lower_[j]],
                  !.col_upper_ =
                    [j \in 1 .. Len(l.col_upper_) |->
                       IF j - 1 \in ScaledIndices(ic)
                       THEN ScaledColUpper(l.col_upper_[j], colScale[j])
                       ELSE l.col_upper_[j]]]]

applyScalingToLpRowBounds(l, rowScale, ic) ==
  IF ~assessIndexCollection(ic)
  THEN [status |-> interpretCallStatus(kError, kOk), lp |-> l]
  ELSE [status |-> kOk,
        lp |-> [l EXCEPT
                  !.row_lower_ =
                    [i \in 1 .. Len(l.row_lower_) |->
                       IF i - 1 \in ScaledIndices(ic)
                       THEN ScaledRowLower(l.row_lower_[i], rowScale[i])
                       ELSE l.row_lower_[i]],
                  !.row_upper_ =
                    [i \in 1 .. Len(l.row_upper_) |->
                       IF i - 1 \in ScaledIndices(ic)
                       THEN ScaledRowUpper(l.row_upper_[i], rowScale[i])
                       ELSE l.row_upper_[i]]]]

\* the column of entry el (from 1) of the matrix, from 1
ColumnOfEntry(m, el) ==
  CHOOSE j \in 1 .. Len(m.start_) - 1 : m.start_[j] < el /\ el <= m.start_[j + 1]

\* applyScalingToLpMatrix with both scale vectors, over all columns and rows
applyScalingToLpMatrix(l, colScale, rowScale) ==
  [status |-> kOk,
   lp |-> [l EXCEPT !.a_matrix_.value_ =
             [el \in 1 .. Len(l.a_matrix_.value_) |->
                FMul(l.a_matrix_.value_[el],
                     FMul(colScale[ColumnOfEntry(l.a_matrix_, el)],
                          rowScale[l.a_matrix_.index_[el] + 1]))]]]

ScalingStatus(cost, colBounds, rowBounds, matrix) ==
  IF cost.status # kOk \/ colBounds.status # kOk \/ rowBounds.status # kOk
     \/ matrix.status # kOk
  THEN kError ELSE kOk

ScaledMatrix(cost, colBounds, rowBounds, matrix) ==
  [status |-> ScalingStatus(cost, colBounds, rowBounds, matrix), lp |-> matrix.lp]

ScaledRowBounds(sc, cost, colBounds, rowBounds) ==
  ScaledMatrix(cost, colBounds, rowBounds,
               applyScalingToLpMatrix(rowBounds.lp, sc.col, sc.row))

ScaledColBounds(sc, cost, colBounds) ==
  ScaledRowBounds(sc, cost, colBounds,
                  applyScalingToLpRowBounds(colBounds.lp, sc.row,
                    Interval(colBounds.lp.num_row_, 0, colBounds.lp.num_row_ - 1)))

ScaledCosts(sc, cost) ==
  ScaledColBounds(sc, cost,
                  applyScalingToLpColBounds(cost.lp, sc.col,
                    Interval(cost.lp.num_col_, 0, cost.lp.num_col_ - 1)))

\* applyScalingToLp: the status it returns and the LP it leaves
applyScalingToLp(l, sc) ==
  IF ~sc.is_scaled THEN [status |-> kOk, lp |-> l]
  ELSE IF Len(sc.col) < l.num_col_ THEN [status |-> kError, lp |-> l]
  ELSE IF Len(sc.row) < l.num_row_ THEN [status |-> kError, lp |-> l]
  ELSE ScaledCosts(sc,
                   applyScalingToLpColCost(l, sc.col,
                                           Interval(l.num_col_, 0, l.num_col_ - 1)))

\* HighsSparseMatrix::scaleRow: the entries of the row are multiplied by
\* rowScale
scaleRow(m, row, rowScale) ==
  [m EXCEPT !.value_ = [el \in 1 .. Len(m.value_) |->
                          IF m.index_[el] = row THEN FMul(m.value_[el], rowScale)
                          ELSE m.value_[el]]]

\* the bounds of the row after applyScalingToLpRow
RowBoundsScaled(l, row, rowScale) ==
  IF Gt(rowScale, Zero)
  THEN [l EXCEPT !.row_lower_[row + 1] = FDiv(l.row_lower_[row + 1], rowScale),
                 !.row_upper_[row + 1] = FDiv(l.row_upper_[row + 1], rowScale)]
  ELSE [l EXCEPT !.row_lower_[row + 1] = FDiv(l.row_upper_[row + 1], rowScale),
                 !.row_upper_[row + 1] = FDiv(l.row_lower_[row + 1], rowScale)]

\* applyScalingToLpRow: the loop over the entries of the row, scaleRow and
\* the bounds
applyScalingToLpRow(l, row, rowScale) ==
  IF row < 0 THEN [status |-> kError, lp |-> l]
  ELSE IF row >= l.num_row_ THEN [status |-> kError, lp |-> l]
  ELSE IF rowScale = Zero THEN [status |-> kError, lp |-> l]
  ELSE [status |-> kOk,
        lp |-> RowBoundsScaled(
                 [l EXCEPT !.a_matrix_ =
                    scaleRow(scaleRow(l.a_matrix_, row, rowScale), row, rowScale)],
                 row, rowScale)]

(***************************************************************************)
(* HighsPseudocost (mip/HighsPseudocost.h)                                 *)
(***************************************************************************)
\* the object of ncols columns with every counter and every average zero
ZeroPseudocost(ncols) ==
  [pseudocostup |-> [j \in 1 .. ncols |-> Zero],
   pseudocostdown |-> [j \in 1 .. ncols |-> Zero],
   nsamplesup |-> [j \in 1 .. ncols |-> 0],
   nsamplesdown |-> [j \in 1 .. ncols |-> 0],
   ncutoffsup |-> [j \in 1 .. ncols |-> 0],
   ncutoffsdown |-> [j \in 1 .. ncols |-> 0],
   cost_total |-> Zero,
   nsamplestotal |-> 0,
   ncutoffstotal |-> 0]

NoPseudocost == ZeroPseudocost(0)

\* an average that is not updated
AverageKept(average, unit_gain, nsamples) == average

\* average += d / nsamples with d = unit_gain - average, nsamples the
\* incremented counter
RunningAverage(average, unit_gain, nsamples) ==
  Add(average, Div(Sub(unit_gain, average), R(nsamples)))

\* the unit gain addObservation records
UnitGain(delta, objdelta) ==
  IF Gt(delta, Zero) THEN Div(objdelta, delta) ELSE Div(Neg(objdelta), delta)

\* addObservation after unit_gain has been computed
Observed(p, col, up, unit_gain) ==
  [p EXCEPT
     !.nsamplesup[col + 1] = IF up THEN @ + 1 ELSE @,
     !.pseudocostup[col + 1] =
        IF up THEN RunningAverage(@, unit_gain, p.nsamplesup[col + 1] + 1) ELSE @,
     !.nsamplesdown[col + 1] = IF up THEN @ ELSE @ + 1,
     !.pseudocostdown[col + 1] =
        IF up THEN @ ELSE RunningAverage(@, unit_gain, p.nsamplesdown[col + 1] + 1),
     !.nsamplestotal = @ + 1,
     !.cost_total = RunningAverage(@, unit_gain, p.nsamplestotal + 1)]

addObservation(p, col, delta, objdelta) ==
  Observed(p, col, Gt(delta, Zero), UnitGain(delta, objdelta))

addCutoffObservation(p, col, upbranch) ==
  [p EXCEPT !.ncutoffstotal = @ + 1,
            !.ncutoffsup[col + 1] = IF upbranch THEN @ + 1 ELSE @,
            !.ncutoffsdown[col + 1] = IF upbranch THEN @ ELSE @ + 1]

subtractBase(p, base) ==
  [p EXCEPT
     !.pseudocostup = [j \in 1 .. Len(p.pseudocostup) |->
                         Sub(p.pseudocostup[j], base.pseudocostup[j])],
     !.pseudocostdown = [j \in 1 .. Len(p.pseudocostup) |->
                           Sub(p.pseudocostdown[j], base.pseudocostdown[j])],
     !.nsamplesup = [j \in 1 .. Len(p.pseudocostup) |->
                       p.nsamplesup[j] - base.nsamplesup[j]],
     !.nsamplesdown = [j \in 1 .. Len(p.pseudocostup) |->
                         p.nsamplesdown[j] - base.nsamplesdown[j]]]

(***************************************************************************)
(* Highs::run (lp_data/HighsSetup.h).  A HighsModelObject is known by the  *)
(* call of run that created it and by the LP it was created from; what     *)
(* presolve, the solver and postsolve answer is given to run as `given`.   *)
(***************************************************************************)
\* HighsModelObject(lp) of the LP of call `call`, or of its reduced LP
HighsModelObject(call, of) == [call |-> call, lp |-> of]

\* runPresolve: the status of presolve
runPresolve(given) ==
  IF given.presolve_option # "ON" THEN "NotReduced"
  ELSE IF ~given.has_presolve THEN "NotReduced"
  ELSE given.presolve_result

\* runPostsolve: the status of postsolve
runPostsolve(given) ==
  IF given.has_presolve
  THEN IF ~given.solution_ok THEN "ReducedSolutionDimenionsError"
       ELSE "SolutionRecovered"
  ELSE "NoPostsolve"

\* the call runSolver(lps_[index]) as run's list of calls records it
SolverCall(lps, index) == [fn |-> "runSolver", index |-> index, model |-> lps[index + 1]]

\* what run returns once the solver and postsolve are done
Returned(lps, calls, given, presolve_status, solve_status) ==
  [lps_ |-> lps, calls |-> calls, presolve_status |-> presolve_status,
   result |-> IF /\ solve_status # "Optimal"
                 /\ solve_status \in {"Infeasible", "Unbounded"}
                 /\ given.presolve_option = "ON"
              THEN "NotImplemented" ELSE "OK"]

\* run after runPostsolve has answered
Postsolved(lps, calls, given, presolve_status, postsolve_status) ==
  IF postsolve_status = "SolutionRecovered"
  THEN Returned(lps, Append(calls, SolverCall(lps, 0)), given, presolve_status,
                given.cleaned)
  ELSE Returned(lps, calls, given, presolve_status, "Optimal")

\* run from the postsolve clock on
Solved(lps, calls, given, presolve_status, solve_status) ==
  IF solve_status = "Optimal"
  THEN Postsolved(lps, Append(calls, [fn |-> "runPostsolve"]), given,
                  presolve_status, runPostsolve(given))
  ELSE Returned(lps, calls, given, presolve_status, solve_status)

\* run after the reduced LP has been pushed onto lps_: the reference timer
\* into lps_[0] bound before may dangle, and run uses it from here on
Reduced(lps, calls, given) ==
  IF given.intact
  THEN Solved(lps, Append(calls, SolverCall(lps, 1)), given, "Reduced", given.solved)
  ELSE [lps_ |-> lps, calls |-> Append(calls, SolverCall(lps, 1)),
        presolve_status |-> "Reduced", result |-> "undefined"]

\* a switch without the case of an infeasible or unbounded LP
DetectedNever(presolve_status) == FALSE

\* presolve has found the LP infeasible or unbounded
Detected(presolve_status) == presolve_status \in {"Infeasible", "Unbounded"}

\* the switch of run over the status of presolve
Presolved(lps, call, calls, given, presolve_status) ==
  IF presolve_status = "NotReduced"
  THEN Solved(lps, Append(calls, SolverCall(lps, 0)), given, presolve_status,
              given.solved)
  ELSE IF presolve_status = "Reduced"
  THEN Reduced(Append(lps, HighsModelObject(call, "reduced_lp")), calls, given)
  ELSE IF presolve_status = "ReducedToEmpty"
  THEN Solved(lps, calls, given, presolve_status, "Init")
  ELSE IF Detected(presolve_status)
  THEN [lps_ |-> lps, calls |-> calls, presolve_status |-> presolve_status,
        result |-> presolve_status]
  ELSE [lps_ |-> lps, calls |-> calls, presolve_status |-> presolve_status,
        result |-> "PresolveError"]

\* Highs::run on the LP of call `call`: lps_ after it, the calls of
\* runPresolve, runSolver and runPostsolve it made and the status it returned
run(lps, call, given) ==
  Presolved(Append(lps, HighsModelObject(call, "lp")), call,
            <<[fn |-> "runPresolve"]>>, given, runPresolve(given))

(***************************************************************************)
(* The LPs and the bases the utilities are given                           *)
(***************************************************************************)
\* The largest numbers of columns and rows of an LP that is assessed
MaxAssessCol == 2
MaxAssessRow == 1

\* A sparse matrix of nc columns without entries
EmptyMatrix(nc) == [start_ |-> [j \in 1 .. (nc + 1) |-> 0], index_ |-> <<>>, value_ |-> <<>>]

\* An LP of the given costs, bounds (pairs of lower and upper) and matrix
LpOf(cost, colBounds, rowBounds, names, matrix) ==
  [num_col_ |-> Len(cost), num_row_ |-> Len(rowBounds),
   col_cost_ |-> cost,
   col_lower_ |-> [j \in 1 .. Len(colBounds) |-> colBounds[j][1]],
   col_upper_ |-> [j \in 1 .. Len(colBounds) |-> colBounds[j][2]],
   row_lower_ |-> [i \in 1 .. Len(rowBounds) |-> rowBounds[i][1]],
   row_upper_ |-> [i \in 1 .. Len(rowBounds) |-> rowBounds[i][2]],
   col_names_ |-> IF names THEN [j \in 1 .. Len(cost) |-> <<"c", j - 1>>] ELSE <<>>,
   row_names_ |-> IF names THEN [i \in 1 .. Len(rowBounds) |-> <<"r", i - 1>>]
                  ELSE <<>>,
   a_matrix_ |-> matrix]

\* Bounds as a user gives them: consistent, inconsistent within and beyond
\* the tolerance, at and beyond infinite_bound, and infinite
BoundPairs ==
  {<<R(0), R(1)>>, <<R(1), R(0)>>, <<R(3), R(0)>>,
   <<Neg(infinite_bound), infinite_bound>>, <<NInf, PInf>>,
   <<infinite_bound, R(12)>>}

\* Costs as a user gives them
CostValues == {R(0), Neg(infinite_cost)}

\* The matrices of an LP of nc columns and nr rows that is assessed: empty,
\* or with one entry that is small, ordinary or large
AssessedMatrices(nc, nr) ==
  {EmptyMatrix(nc)} \cup
  (IF nc > 0 /\ nr > 0
   THEN {[start_ |-> [j \in 1 .. (nc + 1) |-> IF j = 1 THEN 0 ELSE 1],
          index_ |-> <<0>>, value_ |-> <<v>>] :
           v \in {small_matrix_value, R(1), large_matrix_value}}
   ELSE {})

\* No utility has been applied
NoLpOp == [op |-> "none", status |-> kOk, arg |-> <<>>]

NoBasis == [valid |-> FALSE, col_status |-> <<>>, row_status |-> <<>>]

\* The basis file utilities are not used
BasisIdle ==
  /\ basis = NoBasis
  /\ host_basis = NoBasis
  /\ file = <<>>
  /\ bop = [op |-> "none", status |-> kOk]

\* A Highs object as its constructor leaves it and no call of run
HighsIdle ==
  /\ lps_ = <<>>
  /\ hop = [op |-> "none"]

\* A HighsPseudocost object of no column and no operation on it
PseudocostIdle ==
  /\ pseudocost = NoPseudocost
  /\ psop = [op |-> "none"]

\* Neither object is used
SolveIdle == HighsIdle /\ PseudocostIdle

\* The LP utilities are not used
UtilIdleLp ==
  /\ lp = LpOf(<<>>, <<>>, <<>>, FALSE, EmptyMatrix(0))
  /\ lop = NoLpOp
  /\ BasisIdle

UtilIdle == UtilIdleLp /\ SolveIdle

\* The Vector is not used by the ratio test
VecIdle == vec = Vector(0) /\ vop = [op |-> "none", a |-> 0, num_nz |-> 0]

Init == (InitSel \/ InitTier \/ InitCmp \/ InitBig) /\ VecIdle /\ UtilIdle

(***************************************************************************)
(* The steps of one CHUZC and of the updates that apply it                 *)
(***************************************************************************)
\* What a read outside an array may return
OutOfBoundsData == {<<0, Zero>>, <<0, R(FloatMax)>>}

CreateFreelist ==
  /\ pc = "createFreelist"
  /\ freeList' = createFreelist
  /\ pc' = "clear"
  /\ UNCHANGED <<inputVars, basisVars, packVars, workVars, altVars, cf, analysis,
                 ret, pending, hist, vecVars, utilVars,
                solveVars>>

Clear ==
  /\ pc = "clear"
  /\ packCount' = 0
  /\ workCount' = 0
  /\ pc' = "createFreemove"
  /\ UNCHANGED <<inputVars, basisVars, packIndex, packValue, workTheta, workData,
                 workGroup, workPivot, workAlpha, altVars, freeList, cf, analysis,
                 ret, pending, hist, vecVars, utilVars,
                solveVars>>

\* assert(iCol < num_col) stops the run when assertions are compiled in
CreateFreemove ==
  /\ pc = "createFreemove"
  /\ \E asserts \in BOOLEAN :
       LET alphaOf == [iCol \in Vars |-> computeDot(row_ep, iCol)]
       IN  IF asserts /\ \E iCol \in freeList : iCol >= num_col
           THEN /\ pc' = "abort"
                /\ UNCHANGED <<nonbasicMove, hist>>
           ELSE /\ pc' = "chooseMakepack"
                /\ nonbasicMove' = createFreemove(alphaOf)
                /\ hist' = [hist EXCEPT !.moveChuzc = createFreemove(alphaOf)]
  /\ UNCHANGED <<inputVars, nonbasicFlag, workDual, workValue,
                 updated_dual_objective_value, packVars, workVars, altVars,
                 freeList, cf, analysis, ret, pending, vecVars, utilVars,
                solveVars>>

\* chooseMakepack(&row_ap, 0); chooseMakepack(row_ep, num_col);
ChooseMakepack ==
  /\ pc = "chooseMakepack"
  /\ LET p0 == [count |-> packCount, index |-> packIndex, value |-> packValue]
         p == chooseMakepack(chooseMakepack(p0, row_ap, 0), row_ep, num_col)
     IN  /\ packCount' = p.count
         /\ packIndex' = p.index
         /\ packValue' = p.value
  /\ pc' = "choosePossible"
  /\ UNCHANGED <<inputVars, basisVars, workVars, altVars, freeList, cf, analysis,
                 ret, pending, hist, vecVars, utilVars,
                solveVars>>

ChoosePossible ==
  /\ pc = "choosePossible"
  /\ LET s == choosePossible
     IN  /\ workCount' = s.workCount
         /\ workData' = s.workData
         /\ workTheta' = s.workTheta
         /\ hist' = [hist EXCEPT !.possibleCount = s.workCount,
                                 !.possibleData = s.workData]
  /\ pc' = "chooseFinal"
  /\ UNCHANGED <<inputVars, basisVars, packVars, workGroup, workPivot, workAlpha,
                 altVars, freeList, cf, analysis, ret, pending, vecVars, utilVars,
                solveVars>>

\* chooseFinal up to the for (;;) of step 1
ChooseFinalBegin ==
  /\ pc = "chooseFinal"
  /\ cf' = [cf EXCEPT !.fullCount = workCount, !.totalChange = Zero,
                      !.selectTheta = InitialSelectTheta(workTheta)]
  /\ workCount' = 0
  /\ pc' = "reduce"
  /\ UNCHANGED <<inputVars, basisVars, packVars, workTheta, workData, workGroup,
                 workPivot, workAlpha, altVars, freeList, analysis, ret, pending,
                 hist, vecVars, utilVars,
                solveVars>>

\* One pass of the for (;;) of step 1
ChooseFinalReduce ==
  /\ pc = "reduce"
  /\ LET s == ReduceLoop([workCount |-> workCount, workData |-> workData,
                          totalChange |-> cf.totalChange],
                         cf.selectTheta, workCount, cf.fullCount)
     IN  /\ workCount' = s.workCount
         /\ workData' = s.workData
         /\ cf' = [cf EXCEPT !.totalChange = s.totalChange,
                             !.selectTheta = GrowSelectTheta(cf.selectTheta)]
         /\ IF ReduceDone(s.totalChange, s.workCount, cf.fullCount)
            THEN /\ pc' = "sort"
                 /\ hist' = [hist EXCEPT !.reducedCount = s.workCount,
                                         !.reducedData = s.workData,
                                         !.reducedTheta = workTheta]
            ELSE /\ pc' = "reduce"
                 /\ UNCHANGED hist
  /\ UNCHANGED <<inputVars, basisVars, packVars, workTheta, workGroup, workPivot,
                 workAlpha, altVars, freeList, analysis, ret, pending, vecVars, utilVars,
                solveVars>>

\* The orders maxheapsort may leave the heap entries in
HeapOrders(data, fullCount) ==
  {heap_i \in [1 .. Cardinality(HeapEntries(data, fullCount)) ->
                 HeapEntries(data, fullCount)] :
     IsHeapOrder(data, fullCount, heap_i)}

\* Step 2 of chooseFinal up to the while loop of chooseFinalWorkGroupQuad, or
\* through chooseFinalWorkGroupHeap
ChooseFinalSort ==
  /\ pc = "sort"
  /\ analysis' = CountChuzc(analysis, workCount)
  /\ IF UseHeapSort(workCount)
     THEN /\ original_workData' = workData
          /\ \E heap_i \in HeapOrders(workData, workCount) :
               LET h == chooseFinalWorkGroupHeap(workData, workCount, workTheta, heap_i)
               IN  /\ alt_workCount' = h.alt_workCount
                   /\ alt_workGroup' = h.alt_workGroup
                   /\ sorted_workData' = h.sorted_workData
                   /\ IF ~h.ok
                      THEN ret' = -1 /\ pc' = "done"
                      ELSE IF Len(h.alt_workGroup) > 1
                      THEN ret' = ret /\ pc' = "largeAlpha"
                      ELSE ret' = ret /\ pc' = "abort"
          /\ hist' = [hist EXCEPT !.sort = "heap"]
          /\ UNCHANGED <<workCount, workGroup, cf>>
     ELSE /\ cf' = QuadBegin(workCount, workTheta)
          /\ workCount' = 0
          /\ workGroup' = <<0>>
          /\ pc' = "quad"
          /\ hist' = [hist EXCEPT !.sort = "quad"]
          /\ UNCHANGED <<altVars, ret>>
  /\ UNCHANGED <<inputVars, basisVars, packVars, workTheta, workData, workPivot,
                 workAlpha, freeList, pending, vecVars, utilVars,
                solveVars>>

\* One test of the while condition of chooseFinalWorkGroupQuad, with the pass
\* it guards, and the return of the function when the loop is left
ChooseFinalWorkGroupQuad ==
  /\ pc = "quad"
  /\ IF Lt(cf.selectTheta, kMaxSelectTheta)
     THEN LET s == QuadLoop([workCount |-> workCount, workData |-> workData,
                             totalChange |-> cf.totalChange,
                             remainTheta |-> kInitialRemainTheta],
                            cf.selectTheta, workCount, cf.fullCount)
          IN  /\ workCount' = s.workCount
              /\ workData' = s.workData
              /\ workGroup' = Append(workGroup, s.workCount)
              /\ IF QuadNoChange(cf, s.workCount, s.remainTheta, s.remainTheta)
                 THEN /\ ret' = -1
                      /\ pc' = "done"
                      /\ cf' = [cf EXCEPT !.totalChange = s.totalChange,
                                          !.selectTheta = s.remainTheta]
                 ELSE /\ ret' = ret
                      /\ cf' = [cf EXCEPT !.totalChange = s.totalChange,
                                          !.selectTheta = s.remainTheta,
                                          !.prev_workCount = s.workCount,
                                          !.prev_remainTheta = s.remainTheta,
                                          !.prev_selectTheta = s.remainTheta]
                      /\ pc' = IF ReduceDone(s.totalChange, s.workCount, cf.fullCount)
                               THEN "largeAlpha" ELSE "quad"
     ELSE /\ IF Len(workGroup) <= 1
             THEN ret' = -1 /\ pc' = "done"
             ELSE ret' = ret /\ pc' = "largeAlpha"
          /\ UNCHANGED <<workCount, workData, workGroup, cf>>
  /\ UNCHANGED <<inputVars, basisVars, packVars, workTheta, workPivot, workAlpha,
                 altVars, freeList, analysis, pending, hist, vecVars, utilVars,
                solveVars>>

\* Steps 3 and 4 of chooseFinal on the groups of the quadratic sort (quad) or
\* of the heap sort: the pivot, the step and the sorted flip list
chooseFinalPivot(quad, data, group, count, ub) ==
  LET b == chooseFinalLargeAlpha(count, data, group, ub)
      pivot == DataAt(data, b.breakIndex, ub)[1]
      alpha == PivotAlpha(DataAt(data, b.breakIndex, ub)[2], pivot)
      theta == PivotTheta(pivot, alpha)
      before == FlipLoop([workCount |-> 0, workData |-> workData], data, 0,
                         FlipEnd(group, b.breakGroup))
      flips == IF quad THEN before
               ELSE FinalGroupLoop(before, data, theta, group[b.breakGroup + 1],
                                   group[b.breakGroup + 2])
      flipCount == IF theta = Zero THEN 0 ELSE flips.workCount
  IN  [breakIndex |-> b.breakIndex, breakGroup |-> b.breakGroup,
       workPivot |-> pivot, workAlpha |-> alpha, workTheta |-> theta,
       workCount |-> flipCount, workData |-> pdqsort(flips.workData, flipCount)]

\* Steps 3 and 4 of chooseFinal, to its return.  A failed assertion stops the
\* run when assertions are compiled in; otherwise the code goes on.
ChooseFinalLargeAlpha ==
  /\ pc = "largeAlpha"
  /\ \E ub \in OutOfBoundsData, asserts \in BOOLEAN :
       LET quad == UseQuadSort(hist.reducedCount)
           data == IF quad THEN workData ELSE sorted_workData
           group == IF quad THEN workGroup ELSE alt_workGroup
           count == IF quad THEN workCount ELSE alt_workCount
           b == chooseFinalLargeAlpha(count, data, group, ub)
           r == chooseFinalPivot(quad, data, group, count, ub)
       IN  IF b.breakIndex < 0
           THEN /\ asserts
                /\ pc' = "abort"
                /\ UNCHANGED <<workTheta, workCount, workData, workPivot, workAlpha,
                               ret, hist>>
           ELSE /\ workPivot' = r.workPivot
                /\ workAlpha' = r.workAlpha
                /\ workTheta' = r.workTheta
                /\ workCount' = r.workCount
                /\ workData' = r.workData
                /\ hist' = [hist EXCEPT !.groupedCount = count,
                                        !.groupedData = data,
                                        !.breakIndex = r.breakIndex,
                                        !.breakGroup = r.breakGroup]
                /\ IF debugChooseColumnInfeasibilities(r.workData, r.workCount,
                                                       r.workTheta) = 0
                   THEN ret' = 0 /\ pc' = "deleteFreemove"
                   ELSE IF asserts THEN ret' = ret /\ pc' = "abort"
                   ELSE ret' = -1 /\ pc' = "done"
  /\ UNCHANGED <<inputVars, basisVars, packVars, workGroup, altVars, freeList, cf,
                 analysis, pending, vecVars, utilVars,
                solveVars>>

DeleteFreemove ==
  /\ pc = "deleteFreemove"
  /\ nonbasicMove' = deleteFreemove
  /\ pending' = {"updateFlip", "updateDual"}
  /\ pc' = "update"
  /\ UNCHANGED <<inputVars, nonbasicFlag, workDual, workValue,
                 updated_dual_objective_value, packVars, workVars, altVars,
                 freeList, cf, analysis, ret, hist, vecVars, utilVars,
                solveVars>>

UpdateFlip ==
  /\ pc = "update"
  /\ "updateFlip" \in pending
  /\ LET s == updateFlip
     IN  /\ nonbasicMove' = s.nonbasicMove
         /\ workValue' = s.workValue
         /\ updated_dual_objective_value' =
              Add(updated_dual_objective_value, s.change)
  /\ pending' = pending \ {"updateFlip"}
  /\ pc' = IF pending' = {} THEN "done" ELSE "update"
  /\ hist' = [hist EXCEPT !.flips = @ + 1]
  /\ UNCHANGED <<inputVars, nonbasicFlag, workDual, packVars, workVars, altVars,
                 freeList, cf, analysis, ret, vecVars, utilVars,
                solveVars>>

UpdateDual ==
  /\ pc = "update"
  /\ "updateDual" \in pending
  /\ LET s == updateDual(workTheta)
     IN  /\ workDual' = s.workDual
         /\ updated_dual_objective_value' =
              Add(updated_dual_objective_value, s.change)
  /\ pending' = pending \ {"updateDual"}
  /\ pc' = IF pending' = {} THEN "done" ELSE "update"
  /\ hist' = [hist EXCEPT !.duals = @ + 1]
  /\ UNCHANGED <<inputVars, nonbasicFlag, nonbasicMove, workValue, packVars,
                 workVars, altVars, freeList, cf, analysis, ret, vecVars, utilVars,
                solveVars>>

Next ==
  \/ CreateFreelist
  \/ Clear
  \/ CreateFreemove
  \/ ChooseMakepack
  \/ ChoosePossible
  \/ ChooseFinalBegin
  \/ ChooseFinalReduce
  \/ ChooseFinalSort
  \/ ChooseFinalWorkGroupQuad
  \/ ChooseFinalLargeAlpha
  \/ DeleteFreemove
  \/ UpdateFlip
  \/ UpdateDual

Spec == Init /\ [][Next]_vars

(***************************************************************************)
(* The operations that write a Vector                                      *)
(***************************************************************************)
\* The scale factors and the thresholds of sanitize the operations are given
Scalars == {-1, 0, 2}
Thresholds == {0, 1}

\* The other Vector an operation is given: built by the operations themselves
OtherVectors(d) ==
  LET units == {unit(d, u) : u \in 0 .. (d - 1)}
  IN  {Vector(d)} \cup units \cup {operator_negate(x) : x \in units}
        \cup {operator_plus(x, y) : x \in units, y \in units}

\* The values stay within the magnitudes explored
InRange(v) == \A i \in 0 .. (v.dim - 1) : AbsInt(v.value[i]) <= MaxVal

\* vec becomes v by the operation op with the scalar argument a
Written(v, op, a) ==
  /\ InRange(v)
  /\ vec' = v
  /\ vop' = [op |-> op, a |-> a, num_nz |-> vec.num_nz]
  /\ UNCHANGED <<rowVars, utilVars, solveVars>>

Reset == Written(reset(vec), "reset", 0)

Repopulate ==
  \E other \in OtherVectors(vec.dim) :
    Written(repopulate(vec, other), "repopulate", 0)

UnitTarget ==
  \E u \in 0 .. (vec.dim - 1) : Written(unit_target(u, vec), "unit", u)

UnitNew ==
  \E u \in 0 .. (vec.dim - 1) : Written(unit(vec.dim, u), "unit", u)

Sanitize ==
  \E threshold \in Thresholds :
    Written(sanitize(vec, threshold), "sanitize", threshold)

Resparsify == Written(resparsify(vec), "resparsify", 0)

Scale == \E a \in Scalars : Written(scale(vec, a), "scale", a)

Saxpy ==
  \E a \in Scalars, x \in OtherVectors(vec.dim) :
    Written(saxpy(vec, a, x), "saxpy", a)

SaxpyScaled ==
  \E a \in Scalars, b \in Scalars, x \in OtherVectors(vec.dim) :
    Written(saxpy_scaled(vec, a, b, x), "saxpy", a)

OperatorPlusAssign ==
  \E other \in OtherVectors(vec.dim) :
    Written(operator_plus_assign(vec, other), "operator+=", 0)

OperatorTimesAssign ==
  \E d \in Scalars : Written(operator_times_assign(vec, d), "operator*=", d)

OperatorPlus ==
  \E other \in OtherVectors(vec.dim) :
    Written(operator_plus(vec, other), "operator+", 0)

OperatorMinus ==
  \E other \in OtherVectors(vec.dim) :
    Written(operator_minus(vec, other), "operator-", 0)

OperatorNegate == Written(operator_negate(vec), "operator-()", 0)

OperatorTimes ==
  \E d \in Scalars : Written(operator_times(vec, d), "operator*", d)

\* A Vector of each dimension, as constructed; the ratio test is not run
InitVec ==
  /\ Start(1, 1, <<"lower", "basic">>, <<1, 1>>, <<0, 0>>, <<<<2>>>>, <<1>>, 1,
           Identity(2), 0, 0)
  /\ \E d \in 1 .. MaxDim :
       vec = Vector(d) /\ vop = [op |-> "Vector", a |-> d, num_nz |-> 0]
  /\ UtilIdle

NextVec ==
  \/ Reset
  \/ Repopulate
  \/ UnitTarget
  \/ UnitNew
  \/ Sanitize
  \/ Resparsify
  \/ Scale
  \/ Saxpy
  \/ SaxpyScaled
  \/ OperatorPlusAssign
  \/ OperatorTimesAssign
  \/ OperatorPlus
  \/ OperatorMinus
  \/ OperatorNegate
  \/ OperatorTimes

SpecVec == InitVec /\ [][NextVec]_vars

(***************************************************************************)
(* The LP utilities applied to an LP                                       *)
(***************************************************************************)
\* The ratio test and the Vector are not used
RowIdle ==
  Start(1, 1, <<"lower", "basic">>, <<1, 1>>, <<0, 0>>, <<<<2>>>>, <<1>>, 1,
        Identity(2), 0, 0)

\* An LP as its builder leaves it, before it is assessed: of any bounds
InitLpBounds ==
  \E nc \in 0 .. MaxAssessCol, nr \in 0 .. MaxAssessRow :
    \E colBounds \in [1 .. nc -> BoundPairs], rowBounds \in [1 .. nr -> BoundPairs] :
      lp = LpOf([j \in 1 .. nc |-> R(0)], colBounds, rowBounds, FALSE, EmptyMatrix(nc))

\* An LP as its builder leaves it, before it is assessed: of any costs and
\* matrix
InitLpCosts ==
  \E nc \in 0 .. MaxAssessCol, nr \in 0 .. MaxAssessRow :
    \E cost \in [1 .. nc -> CostValues], matrix \in AssessedMatrices(nc, nr) :
      lp = LpOf(cost, [j \in 1 .. nc |-> <<R(0), R(1)>>],
                [i \in 1 .. nr |-> <<R(0), R(1)>>], FALSE, matrix)

InitLp ==
  /\ RowIdle
  /\ VecIdle
  /\ SolveIdle
  /\ BasisIdle
  /\ lop = NoLpOp
  /\ (InitLpBounds \/ InitLpCosts)

\* lp becomes l by the utility op, which was given arg and returned status
Applied(l, op, status, arg) ==
  /\ lp' = l
  /\ lop' = [op |-> op, status |-> status, arg |-> arg]
  /\ UNCHANGED <<rowVars, vecVars, basis, host_basis, file, bop, solveVars>>

AssessLp ==
  LET r == assessLp(lp) IN Applied(r.lp, "assessLp", r.status, <<>>)

CleanBounds ==
  LET r == cleanBounds(lp) IN Applied(r.lp, "cleanBounds", r.status, <<>>)

\* The index collections over dim indices that a caller gives: intervals,
\* also empty ones and ones that leave [0, dim - 1], sets, also ones that do
\* not increase or leave the range, and masks
IndexCollections(dim) ==
  {Interval(dim, from, to) : from \in 0 .. dim, to \in -1 .. dim}
    \cup {IndexSet(dim, <<>>)}
    \cup {IndexSet(dim, <<a>>) : a \in -1 .. dim}
    \cup {IndexSet(dim, <<a, b>>) : a \in 0 .. (dim - 1), b \in 0 .. (dim - 1)}
    \cup {IndexMask(dim, mask) : mask \in [1 .. dim -> BOOLEAN]}

\* The cost data a caller passes with an index collection: the costs of the
\* columns of the interval or of the set in its order, or of all columns
CostData(ic, cost) ==
  IF ic.is_interval_ THEN SubSeq(cost, ic.from_ + 1, ic.to_ + 1)
  ELSE IF ic.is_set_ THEN [k \in 1 .. ic.set_num_entries_ |-> cost[ic.set_[k] + 1]]
  ELSE cost

AssessCosts ==
  \E ic \in IndexCollections(lp.num_col_) :
    /\ assessIndexCollection(ic) => Len(CostData(ic, lp.col_cost_)) >= 0
    /\ Applied(lp, "assessCosts",
               IF assessIndexCollection(ic) THEN assessCosts(ic, CostData(ic, lp.col_cost_))
               ELSE assessCosts(ic, <<>>),
               ic)

NextLp ==
  \/ AssessLp
  \/ CleanBounds

SpecLp == InitLp /\ [][NextLp]_vars

\* An LP of any costs, whose costs are assessed
InitCosts ==
  /\ RowIdle
  /\ VecIdle
  /\ SolveIdle
  /\ BasisIdle
  /\ lop = NoLpOp
  /\ InitLpCosts

SpecCosts == InitCosts /\ [][AssessCosts]_vars

(***************************************************************************)
(* Columns and rows deleted from an LP                                     *)
(***************************************************************************)
\* The largest numbers of columns and rows of an LP that columns and rows
\* are deleted from
MaxDeleteCol == 3
MaxDeleteRow == 2

\* A matrix of nc columns and nr rows with the entries of the rows up to the
\* column, all of different values
DeleteMatrix(nc, nr) ==
  MatrixOfColumns([col \in 1 .. nc |->
                     [el \in 1 .. (IF col < nr THEN col ELSE nr) |->
                        <<el - 1, R((MaxDeleteRow + 1) * col + el)>>]])

\* An LP whose columns and rows all differ, with names or without
InitLpDelete ==
  \E nc \in 0 .. MaxDeleteCol, nr \in 0 .. MaxDeleteRow, names \in BOOLEAN :
    lp = LpOf([j \in 1 .. nc |-> R(j)], [j \in 1 .. nc |-> <<R(-j), R(j + 1)>>],
              [i \in 1 .. nr |-> <<R(-i - MaxDeleteCol), R(i)>>], names,
              DeleteMatrix(nc, nr))

InitDelete ==
  /\ RowIdle
  /\ VecIdle
  /\ SolveIdle
  /\ BasisIdle
  /\ lop = NoLpOp
  /\ InitLpDelete

\* The index collections over dim indices given for a deletion: intervals,
\* also empty ones, sets, also ones that do not increase or leave the range,
\* and masks
DeleteCollections(dim) ==
  {Interval(dim, from, to) : from \in 0 .. dim, to \in -1 .. (dim - 1)}
    \cup {IndexSet(dim, <<>>)}
    \cup {IndexSet(dim, <<a>>) : a \in -1 .. dim}
    \cup {IndexSet(dim, <<a, b>>) : a \in 0 .. (dim - 1), b \in 0 .. dim}
    \cup {IndexMask(dim, mask) : mask \in [1 .. dim -> BOOLEAN]}

DeleteLpCols ==
  \E ic \in DeleteCollections(lp.num_col_) :
    LET r == deleteLpCols(lp, ic) IN Applied(r.lp, "deleteLpCols", r.status, ic)

DeleteLpRows ==
  \E ic \in DeleteCollections(lp.num_row_) :
    LET r == deleteLpRows(lp, ic) IN Applied(r.lp, "deleteLpRows", r.status, ic)

NextDelete ==
  \/ DeleteLpCols
  \/ DeleteLpRows

SpecDelete == InitDelete /\ [][NextDelete]_vars

(***************************************************************************)
(* Coefficients of the matrix of an LP changed and read                    *)
(***************************************************************************)
\* The largest numbers of columns and rows, and of both together, of an LP
\* whose coefficients are changed
MaxMatrixCol == 2
MaxMatrixRow == 2
MaxMatrixSize == 3

\* The matrices of nc columns and nr rows with the entries of value 1 of any
\* rows in each column, in the order of the rows
ValidMatrices(nc, nr) ==
  {MatrixOfColumns([col \in 1 .. nc |->
                      [el \in 1 .. Cardinality(rows[col]) |->
                         <<Increasing(rows[col])[el], R(1)>>]]) :
     rows \in [1 .. nc -> SUBSET (0 .. (nr - 1))]}

\* No coefficient has been changed or read
NoMatrixOp == [op |-> "none", status |-> kOk, arg |-> [past_end |-> FALSE]]

\* An LP with a valid matrix
InitMatrix ==
  /\ RowIdle
  /\ VecIdle
  /\ SolveIdle
  /\ BasisIdle
  /\ lop = NoMatrixOp
  /\ \E nc \in 1 .. MaxMatrixCol, nr \in 1 .. MaxMatrixRow :
       /\ nc + nr <= MaxMatrixSize
       /\ \E matrix \in ValidMatrices(nc, nr) :
            lp = LpOf([j \in 1 .. nc |-> R(0)], [j \in 1 .. nc |-> <<R(0), R(1)>>],
                      [i \in 1 .. nr |-> <<R(0), R(1)>>], FALSE, matrix)

\* changeLpMatrixCoefficient reads start_[col + 1] past the end of start_
ReadsPastEnd(l, row, col) ==
  ~ChangeRejects(row, l.num_row_) /\ col = l.num_col_

\* A coefficient changed. For col = num_col_ the entry of start_ read past
\* its end is any number; the numbers up to the number of entries keep the
\* reads and writes that follow inside index_ and value_, and what the
\* program does after such a call is not followed
ChangeLpMatrixCoefficient ==
  /\ ~lop.arg.past_end
  /\ \E row \in -1 .. (lp.num_row_ + 1), col \in -1 .. (lp.num_col_ + 1) :
       \E past \in IF ReadsPastEnd(lp, row, col)
                   THEN 0 .. lp.a_matrix_.start_[lp.num_col_ + 1] ELSE {0} :
         LET r == changeLpMatrixCoefficient(lp, row, col, R(2), past)
         IN  Applied(r.lp, "changeLpMatrixCoefficient", r.status,
                     [row |-> row, col |-> col, val |-> R(2),
                      past_end |-> ReadsPastEnd(lp, row, col)])

GetLpMatrixCoefficient ==
  /\ ~lop.arg.past_end
  /\ \E Xrow \in -1 .. (lp.num_row_ + 1), Xcol \in -1 .. (lp.num_col_ + 1) :
       LET r == getLpMatrixCoefficient(lp, Xrow, Xcol, NaN)
       IN  Applied(lp, "getLpMatrixCoefficient", r.status,
                   [row |-> Xrow, col |-> Xcol, val |-> r.val, past_end |-> FALSE])

NextMatrix ==
  \/ ChangeLpMatrixCoefficient
  \/ GetLpMatrixCoefficient

SpecMatrix == InitMatrix /\ [][NextMatrix]_vars

(***************************************************************************)
(* A basis written to a file and read from it                              *)
(***************************************************************************)
\* The largest numbers of columns and rows of a basis
MaxBasisCol == 2
MaxBasisRow == 2

\* The values of the statuses written: those of HighsBasisStatus and one of
\* several digits
StatusValues == {0, 1, 4, 12}

\* A basis, valid or not, and a host basis of its numbers of columns and
\* rows or of these exchanged; no file is written yet
InitBasis ==
  /\ RowIdle
  /\ VecIdle
  /\ SolveIdle
  /\ lp = LpOf(<<>>, <<>>, <<>>, FALSE, EmptyMatrix(0))
  /\ lop = NoLpOp
  /\ file = <<>>
  /\ bop = [op |-> "none", status |-> kOk]
  /\ \E nc \in 0 .. MaxBasisCol, nr \in 0 .. MaxBasisRow :
       /\ \E col_status \in [1 .. nc -> StatusValues],
             row_status \in [1 .. nr -> StatusValues], valid \in BOOLEAN :
            basis = [valid |-> valid, col_status |-> col_status,
                     row_status |-> row_status]
       /\ \E same \in BOOLEAN :
            host_basis = [valid |-> FALSE,
                          col_status |-> [j \in 1 .. (IF same THEN nc ELSE nr) |-> 0],
                          row_status |-> [i \in 1 .. (IF same THEN nr ELSE nc) |-> 0]]

WriteBasisFile ==
  LET r == writeBasisFile(basis, file)
  IN  /\ file' = r.text
      /\ bop' = [op |-> "writeBasisFile", status |-> r.status]
      /\ UNCHANGED <<rowVars, vecVars, lp, lop, basis, host_basis, solveVars>>

ReadBasisFile ==
  \E uninit \in {0, 1} :
    LET r == readBasisFile(host_basis, file, uninit)
    IN  /\ host_basis' = r.basis
        /\ bop' = [op |-> "readBasisFile", status |-> r.status]
        /\ UNCHANGED <<rowVars, vecVars, lp, lop, basis, file, solveVars>>

NextBasis ==
  \/ WriteBasisFile
  \/ ReadBasisFile

SpecBasis == InitBasis /\ [][NextBasis]_vars

(***************************************************************************)
(* Scaling an LP and scaling it back                                       *)
(***************************************************************************)
\* The largest numbers of columns and rows of an LP that is scaled
MaxScaleCol == 1

MaxScaleRow == 1

\* Scale factors: powers of two, as scaleLp computes them, and another one
ScaleValues == {Q(1, 2), R(2), R(3)}

\* Columns, each a cost, a lower and an upper bound: small numbers, numbers
\* whose doubles overflow and subnormal ones
ScaledColumns ==
  {<<R(7), R(-7), R(896)>>, <<R(896), NInf, PInf>>, <<Q(3, 16), Q(3, 16), R(7)>>}

ScaledBoundPairs == {<<NInf, PInf>>, <<R(-7), R(896)>>, <<Q(3, 16), R(7)>>}

\* A matrix of nc columns with an entry of value 1 in row 0 of every column,
\* if there is a row
RowZeroMatrix(nc, nr) ==
  IF nr = 0 THEN EmptyMatrix(nc)
  ELSE [start_ |-> [j \in 1 .. (nc + 1) |-> j - 1],
        index_ |-> [j \in 1 .. nc |-> 0],
        value_ |-> [j \in 1 .. nc |-> R(1)]]

\* the scale of the reciprocal factors, each computed as the double 1 / s
Reciprocal(sc) ==
  [is_scaled |-> sc.is_scaled,
   col |-> [j \in 1 .. Len(sc.col) |-> FDiv(R(1), sc.col[j])],
   row |-> [i \in 1 .. Len(sc.row) |-> FDiv(R(1), sc.row[i])]]

InitScale ==
  /\ RowIdle
  /\ VecIdle
  /\ SolveIdle
  /\ BasisIdle
  /\ \E nc \in 0 .. MaxScaleCol, nr \in 0 .. MaxScaleRow :
       \E cols \in [1 .. nc -> ScaledColumns],
          rowBounds \in [1 .. nr -> ScaledBoundPairs],
          col \in [1 .. nc -> ScaleValues], row \in [1 .. nr -> ScaleValues],
          is_scaled \in BOOLEAN :
         /\ lp = LpOf([j \in 1 .. nc |-> cols[j][1]],
                      [j \in 1 .. nc |-> <<cols[j][2], cols[j][3]>>],
                      rowBounds, FALSE, RowZeroMatrix(nc, nr))
         /\ lop = [op |-> "none", status |-> kOk,
                   arg |-> [scale |-> [is_scaled |-> is_scaled, col |-> col,
                                       row |-> row],
                            original |-> lp, scaled |-> lp]]

ApplyScalingToLp ==
  /\ lop.op = "none"
  /\ LET r == applyScalingToLp(lp, lop.arg.scale)
     IN  Applied(r.lp, "applyScalingToLp", r.status, [lop.arg EXCEPT !.scaled = r.lp])

ApplyReciprocalScalingToLp ==
  /\ lop.op = "applyScalingToLp"
  /\ LET r == applyScalingToLp(lp, Reciprocal(lop.arg.scale))
     IN  Applied(r.lp, "applyReciprocalScalingToLp", r.status, lop.arg)

NextScale ==
  \/ ApplyScalingToLp
  \/ ApplyReciprocalScalingToLp

SpecScale == InitScale /\ [][NextScale]_vars

(***************************************************************************)
(* Scaling one row of an LP                                                *)
(***************************************************************************)
\* Scale factors of a row: none, positive ones and a negative one
RowScaleValues == {Zero, Q(1, 2), R(2), R(-2)}

ApplyScalingToLpRow ==
  /\ lop.op = "none"
  /\ \E row \in -1 .. lp.num_row_, rowScale \in RowScaleValues :
       LET r == applyScalingToLpRow(lp, row, rowScale)
       IN  Applied(r.lp, "applyScalingToLpRow", r.status,
                   [row |-> row, rowScale |-> rowScale])

SpecScaleRow == InitScale /\ [][ApplyScalingToLpRow]_vars

(***************************************************************************)
(* Observations recorded in a HighsPseudocost object                       *)
(***************************************************************************)
\* The largest number of columns of the object and the largest number of
\* operations applied to it
MaxPseudoCol == 2

MaxObservations == 3

\* the changes of a column (delta) and of the objective (objdelta) observed
Deltas == {R(-1), R(2)}

ObjDeltas == {Zero, R(3)}

\* The object as constructed for a MIP of up to MaxPseudoCol columns, and
\* the copy of it taken then
InitPseudocost ==
  /\ RowIdle
  /\ VecIdle
  /\ UtilIdleLp
  /\ HighsIdle
  /\ \E ncols \in 1 .. MaxPseudoCol :
       /\ pseudocost = ZeroPseudocost(ncols)
       /\ psop = [op |-> "none", observations |-> <<>>, steps |-> 0,
                  base |-> ZeroPseudocost(ncols)]

\* pseudocost becomes p by the operation op
Recorded(p, op, observations, base) ==
  /\ psop.steps < MaxObservations
  /\ pseudocost' = p
  /\ psop' = [op |-> op, observations |-> observations, steps |-> psop.steps + 1,
              base |-> base]
  /\ UNCHANGED <<rowVars, vecVars, utilVars, lps_, hop>>

AddObservation ==
  \E col \in 0 .. Len(pseudocost.pseudocostup) - 1, delta \in Deltas,
     objdelta \in ObjDeltas :
    Recorded(addObservation(pseudocost, col, delta, objdelta), "addObservation",
             Append(psop.observations,
                    [col |-> col, delta |-> delta, objdelta |-> objdelta]),
             psop.base)

AddCutoffObservation ==
  \E col \in 0 .. Len(pseudocost.pseudocostup) - 1, upbranch \in BOOLEAN :
    Recorded(addCutoffObservation(pseudocost, col, upbranch),
             "addCutoffObservation", psop.observations, psop.base)

\* a copy of the object is taken
CopyPseudocost ==
  Recorded(pseudocost, "copy", psop.observations, pseudocost)

\* the copy taken earlier is subtracted
SubtractBase ==
  Recorded(subtractBase(pseudocost, psop.base), "subtractBase", psop.observations,
           psop.base)

\* addObservation alone
SpecPseudocost == InitPseudocost /\ [][AddObservation]_vars

NextPseudocost ==
  \/ AddObservation
  \/ AddCutoffObservation
  \/ CopyPseudocost
  \/ SubtractBase

SpecPseudocostBase == InitPseudocost /\ [][NextPseudocost]_vars

(***************************************************************************)
(* Calls of Highs::run on one Highs object                                 *)
(***************************************************************************)
\* The largest number of calls of run
MaxRun == 3

\* HighsPresolveStatus and HighsStatus as presolve and the solver answer
PresolveStatuses ==
  {"NotReduced", "Reduced", "ReducedToEmpty", "Infeasible", "Unbounded", "NullError"}

SolverStatuses == {"Optimal", "Infeasible", "Unbounded", "NotImplemented"}

InitRun ==
  /\ RowIdle
  /\ VecIdle
  /\ UtilIdleLp
  /\ PseudocostIdle
  /\ lps_ = <<>>
  /\ hop = [op |-> "none", call |-> 0, calls |-> <<>>, presolve_status |-> "none",
            result |-> "none",
            options_ |-> [presolve_option |-> "OFF", clean_up |-> FALSE]]

\* options_.clean_up = true: postsolve recovered the solution and the solver
\* was called after it
CleanUp(calls) ==
  \E i \in 1 .. Len(calls) - 1 : calls[i].fn = "runPostsolve"

\* run(lp, solution) on a new LP, the LP of call hop.call + 1, with
\* options_.presolve_option as the caller has set it
Run ==
  /\ hop.call < MaxRun
  /\ hop.result # "undefined"
  /\ \E presolve_option \in {"ON", "OFF"}, has_presolve \in BOOLEAN,
        presolve_result \in PresolveStatuses, solved \in SolverStatuses,
        solution_ok \in BOOLEAN, cleaned \in SolverStatuses, intact \in BOOLEAN :
       LET r == run(lps_, hop.call + 1,
                    [presolve_option |-> presolve_option,
                     has_presolve |-> has_presolve,
                     presolve_result |-> presolve_result, solved |-> solved,
                     solution_ok |-> solution_ok, cleaned |-> cleaned,
                     intact |-> intact])
       IN  /\ lps_' = r.lps_
           /\ hop' = [op |-> "run", call |-> hop.call + 1, calls |-> r.calls,
                      presolve_status |-> r.presolve_status, result |-> r.result,
                      options_ |-> [presolve_option |-> presolve_option,
                                    clean_up |-> \/ hop.options_.clean_up
                                                 \/ CleanUp(r.calls)]]
  /\ UNCHANGED <<rowVars, vecVars, utilVars, pseudocost, psop>>

SpecRun == InitRun /\ [][Run]_vars

(***************************************************************************)
(* The ratio test for a leaving variable of primal infeasibility 0         *)
(***************************************************************************)
InitZeroDelta == ZeroDeltaRow /\ VecIdle /\ UtilIdle

SpecZeroDelta == InitZeroDelta /\ [][Next]_vars

(***************************************************************************)
(* Properties of the ratio test                                            *)
(***************************************************************************)
\* The step has been applied: chooseFinal returned 0 and updateFlip and
\* updateDual have both run
StepApplied == pc = "done" /\ ret = 0 /\ hist.flips = 1 /\ hist.duals = 1

\* The variables that are still nonbasic after the step
StillNonbasic == {j \in Vars : nonbasicFlag[j] # 0 /\ j # workPivot}

\* C1: if every nonbasic variable is dual feasible before the step
\* (move_j * d_j >= -Td), then after chooseFinal has returned 0 and updateDual
\* and updateFlip have applied the step, every variable that is still
\* nonbasic satisfies move_j * d_j >= -Td.
C1_DualFeasibilityPreserved ==
  (StepApplied /\ hist.feasible) =>
    \A j \in StillNonbasic : Ge(Mul(R(nonbasicMove[j]), workDual[j]), Neg(Td))

\* chooseFinal has returned 0
Returned0 == pc \in {"deleteFreemove", "update", "done"} /\ ret = 0

\* The grouped candidates: position i (of the code) of the array chooseFinal
\* grouped, its column, its alpha and the group it lies in
Grouped == 0 .. (hist.groupedCount - 1)

GroupedCol(i) == hist.groupedData[i + 1][1]

GroupedAlpha(i) == hist.groupedData[i + 1][2]

Groups == 0 .. (Len(workGroup) - 2)

GroupOf(i) == CHOOSE g \in Groups : workGroup[g + 1] <= i /\ i < workGroup[g + 2]

PivotPosition == CHOOSE i \in Grouped : GroupedCol(i) = workPivot

\* C2: after chooseFinal has returned 0 with workTheta # 0, the flip list
\* workData[0 .. workCount) holds exactly the candidates of the groups
\* strictly before the pivot's group, each with move_j * range_j, and so
\* never the pivot; with workTheta = 0 the flip list is empty.
C2_FlipList ==
  Returned0 =>
    IF workTheta = Zero THEN workCount = 0
    ELSE LET before == {i \in Grouped : GroupOf(i) < GroupOf(PivotPosition)}
         IN  /\ workCount = Cardinality(before)
             /\ {workData[k] : k \in 1 .. workCount} =
                  {<<GroupedCol(i),
                     Mul(R(hist.moveChuzc[GroupedCol(i)]), workRange[GroupedCol(i)])>> :
                     i \in before}
             /\ \A k \in 1 .. workCount : workData[k][1] # workPivot

\* A step with a flip list of two variables
C2_Witness == Returned0 /\ workTheta # Zero /\ workCount = 2

\* The largest alpha of group g
GroupLargest(g) ==
  CHOOSE a \in {GroupedAlpha(i) : i \in {k \in Grouped : GroupOf(k) = g}} :
    \A i \in {k \in Grouped : GroupOf(k) = g} : Le(GroupedAlpha(i), a)

\* min(0.1 * max alpha over all grouped candidates, 1.0)
LargeAlphaThreshold ==
  LET largest == CHOOSE a \in {GroupedAlpha(i) : i \in Grouped} :
                   \A i \in Grouped : Le(GroupedAlpha(i), a)
  IN  IF Lt(Mul(Q(1, 10), largest), R(1000000000))
      THEN Mul(Q(1, 10), largest) ELSE R(1000000000)

ClaimedTa ==
  IF update_count < 10 THEN R(1) ELSE IF update_count < 20 THEN R(30) ELSE R(1000)

\* The packed entries that the claim makes candidates, as pairs (j, alpha_j)
ClaimedCandidates ==
  {c \in {<<packIndex[i],
            Mul(packValue[i], R((IF Lt(workDelta, Zero) THEN -1 ELSE 1)
                                * nonbasicMove[packIndex[i]]))>> :
            i \in 1 .. packCount} :
     Gt(c[2], ClaimedTa)}

\* (move_j * d_j + Td) / alpha_j of the candidate c = (j, alpha_j)
ClaimedRatio(c) ==
  Div(Add(Mul(R(nonbasicMove[c[1]]), workDual[c[1]]), Td), c[2])

\* C4: choosePossible records as candidates exactly the packed entries with
\* alpha_j = packValue_j * move_out * move_j > Ta, Ta being 1e-9, 3e-8 or 1e-6
\* by update_count (so no variable with move 0), and sets workTheta to the
\* least (move_j * d_j + Td) / alpha_j of the candidates, infinity if none.
C4_ChoosePossible ==
  pc = "chooseFinal" =>
    /\ workCount = Cardinality(ClaimedCandidates)
    /\ {workData[k] : k \in 1 .. workCount} = ClaimedCandidates
    /\ \A k \in 1 .. workCount : nonbasicMove[workData[k][1]] # 0
    /\ IF ClaimedCandidates = {} THEN workTheta = PInf
       ELSE /\ \E c \in ClaimedCandidates : workTheta = ClaimedRatio(c)
            /\ \A c \in ClaimedCandidates : Le(workTheta, ClaimedRatio(c))

\* Pass A with update_count between 10 and 19 kept an entry with alpha above
\* 3e-8 and left out one with alpha no larger than 3e-8 but above 1e-9
C4_Witness ==
  /\ pc = "chooseFinal"
  /\ update_count >= 10 /\ update_count < 20
  /\ workCount = 1
  /\ \E i \in 1 .. packCount :
       LET alpha == Mul(packValue[i], R(move_out * nonbasicMove[packIndex[i]]))
       IN  Gt(alpha, R(1)) /\ Le(alpha, R(30))

\* The free-list members whose pivot-row entry exceeds Ta in magnitude
FreeMoved == {j \in freeList : Gt(Fabs(computeDot(row_ep, j)), ClaimedTa)}

\* C8: createFreemove gives every free-list column j with |alpha_j| > Ta,
\* alpha_j = row_ep . A_j, the move +1 if alpha_j * move_out > 0 and -1
\* otherwise and leaves every other move unchanged; each such column then
\* passes the candidate test of Pass A in the same iteration.
C8_Freemove ==
  /\ pc \in {"chooseMakepack", "choosePossible", "chooseFinal"} =>
       \A j \in Vars :
         nonbasicMove[j] =
           IF j \in FreeMoved
           THEN (IF Gt(Mul(computeDot(row_ep, j), R(move_out)), Zero) THEN 1 ELSE -1)
           ELSE hist.move[j]
  /\ pc = "chooseFinal" =>
       \A j \in FreeMoved : \E k \in 1 .. workCount : workData[k][1] = j

\* A free column got the move -1 and became a candidate
C8_Witness ==
  /\ pc = "chooseFinal"
  /\ \E j \in FreeMoved : hist.move[j] = 0 /\ nonbasicMove[j] = -1

\* C9: after any sequence of updateFlip and updateDual calls, the change made
\* to updated_dual_objective_value equals cost_scale times the change of the
\* sum over the nonbasic variables of workValue_j * workDual_j.
C9_DualObjective ==
  Sub(updated_dual_objective_value, hist.objective) =
    Sub(DualObjective(nonbasicFlag, workValue, workDual), hist.sum)

\* Both updates have run, variables were flipped and the objective changed
C9_Witness ==
  /\ StepApplied
  /\ workCount > 0
  /\ workTheta # Zero
  /\ updated_dual_objective_value # hist.objective

\* The pass of the for (;;) of step 1 that is about to run leaves workCount,
\* totalChange and selectTheta as they are and does not leave the loop: every
\* later pass does the same, and chooseFinal never returns.
EndlessReduce ==
  /\ pc = "reduce"
  /\ LET s == ReduceLoop([workCount |-> workCount, workData |-> workData,
                          totalChange |-> cf.totalChange],
                         cf.selectTheta, workCount, cf.fullCount)
     IN  /\ s.workCount = workCount
         /\ s.totalChange = cf.totalChange
         /\ GrowSelectTheta(cf.selectTheta) = cf.selectTheta
         /\ ~ReduceDone(s.totalChange, s.workCount, cf.fullCount)

\* The same for the while loop of chooseFinalWorkGroupQuad
EndlessQuad ==
  /\ pc = "quad"
  /\ Lt(cf.selectTheta, kMaxSelectTheta)
  /\ LET s == QuadLoop([workCount |-> workCount, workData |-> workData,
                        totalChange |-> cf.totalChange,
                        remainTheta |-> kInitialRemainTheta],
                       cf.selectTheta, workCount, cf.fullCount)
     IN  /\ s.workCount = workCount
         /\ s.remainTheta = cf.selectTheta
         /\ ~QuadNoChange(cf, s.workCount, s.remainTheta, s.remainTheta)
         /\ ~ReduceDone(s.totalChange, s.workCount, cf.fullCount)

\* C5: chooseFinal terminates for every candidate list, workTheta and
\* workDelta: neither the reduction loop of step 1 nor the grouping loop of
\* chooseFinalWorkGroupQuad reaches a pass that changes nothing and goes on,
\* also when workTheta is negative.
C5_ChooseFinalTerminates == ~EndlessReduce /\ ~EndlessQuad

\* The largest candidate list the two sorts are compared on
MaxHeapCompared == 4

\* The columns of group g of a grouping (data, group)
GroupCols(data, group, g) ==
  {data[i + 1][1] : i \in group[g + 1] .. (group[g + 2] - 1)}

\* The flipped columns of a result of steps 3 and 4
FlipCols(r) == {r.workData[k][1] : k \in 1 .. r.workCount}

\* The heap sort, run on the reduced candidates the quadratic sort was given
\* with the entries of equal ratio in the order heap_i, gives the groups, the
\* pivot and the flips of the quadratic sort
HeapAgrees(heap_i) ==
  LET h == chooseFinalWorkGroupHeap(hist.reducedData, hist.reducedCount,
                                    hist.reducedTheta, heap_i)
      q == chooseFinalPivot(TRUE, workData, workGroup, workCount, <<0, Zero>>)
      r == chooseFinalPivot(FALSE, h.sorted_workData, h.alt_workGroup,
                            h.alt_workCount, <<0, Zero>>)
  IN  /\ h.ok
      /\ Len(h.alt_workGroup) = Len(workGroup)
      /\ \A g \in Groups :
           GroupCols(h.sorted_workData, h.alt_workGroup, g) =
             GroupCols(workData, workGroup, g)
      /\ r.workPivot = q.workPivot
      /\ FlipCols(r) = FlipCols(q)

\* C6: on the same reduced candidate list, workTheta, workDelta, reduced
\* costs, moves and ranges, chooseFinalWorkGroupQuad and
\* chooseFinalWorkGroupHeap give the same sequence of groups, and
\* chooseFinalLargeAlpha then the same entering variable and the same flips.
C6_QuadHeapAgree ==
  (pc = "largeAlpha" /\ hist.reducedCount <= MaxHeapCompared) =>
    \A heap_i \in HeapOrders(hist.reducedData, hist.reducedCount) :
      HeapAgrees(heap_i)

\* C7: chooseFinal groups with the heap sort when the reduced candidate count
\* exceeds 100 and with the quadratic sort otherwise.
C7_SortByCount ==
  hist.sort # "none" =>
    (hist.sort = "heap" <=> hist.reducedCount > kHeapThreshold)

\* The positions index[0..num_nz) of a Vector
ListedPositions(v) == {v.index[i] : i \in 0 .. (v.num_nz - 1)}

\* index[0..num_nz) holds distinct positions, and these are exactly the
\* positions whose dense value is nonzero
VectorInvariant(v) ==
  /\ v.num_nz <= v.dim
  /\ \A i, j \in 0 .. (v.num_nz - 1) : i # j => v.index[i] # v.index[j]
  /\ ListedPositions(v) = {p \in 0 .. (v.dim - 1) : v.value[p] # 0}

\* C10: after every operation that writes a Vector, for every argument and
\* also for a scale factor of 0, index[0..num_nz) of the Vector written holds
\* distinct positions and these are exactly the positions of nonzero value.
C10_VectorInvariant == VectorInvariant(vec)

\* The listed entries of v that sanitize keeps, in the order of the index list
RECURSIVE KeptFrom(_, _, _)
KeptFrom(v, threshold, i) ==
  IF i >= v.num_nz THEN <<>>
  ELSE IF AbsInt(v.value[v.index[i]]) > threshold
  THEN <<v.index[i]>> \o KeptFrom(v, threshold, i + 1)
  ELSE KeptFrom(v, threshold, i + 1)

\* w is v with exactly the listed entries of magnitude <= threshold dropped
SanitizeContract(v, w, threshold) ==
  LET kept == KeptFrom(v, threshold, 0)
  IN  /\ w.num_nz = Len(kept)
      /\ \A k \in 1 .. Len(kept) : w.index[k - 1] = kept[k]
      /\ \A p \in 0 .. (v.dim - 1) :
           w.value[p] =
             IF p \in ListedPositions(v) /\ ~(AbsInt(v.value[p]) > threshold)
             THEN 0 ELSE v.value[p]

\* C11: sanitize(eps) drops exactly the listed entries with |value| <= eps:
\* their dense values become 0, the other listed entries keep their values
\* and their order in the index list, num_nz becomes the number kept, and no
\* dense value outside the index list changes.
C11_Sanitize ==
  [][vop'.op = "sanitize" => SanitizeContract(vec, vec', vop'.a)]_vars

\* sanitize(1) dropped some of the listed entries and kept the others
C11_Witness ==
  /\ vop.op = "sanitize"
  /\ vop.a = 1
  /\ vec.num_nz > 0
  /\ vec.num_nz < vop.num_nz


(***************************************************************************)
(* Properties of the LP utilities                                          *)
(***************************************************************************)
\* All the bounds of the columns and rows of an LP
AllBounds(l) ==
  {l.col_lower_[j] : j \in 1 .. Len(l.col_lower_)}
    \cup {l.col_upper_[j] : j \in 1 .. Len(l.col_upper_)}
    \cup {l.row_lower_[i] : i \in 1 .. Len(l.row_lower_)}
    \cup {l.row_upper_[i] : i \in 1 .. Len(l.row_upper_)}

\* C12: on every LP for which assessLp returns OK, of any dimensions, every
\* column and row bound whose magnitude is at least infinite_bound has been
\* promoted to plus or minus infinity.
C12_AssessLpPromotes ==
  (lop.op = "assessLp" /\ lop.status = kOk) =>
    \A b \in AllBounds(lp) : Ge(Fabs(b), infinite_bound) => Fabs(b) = PInf

\* The columns an index collection selects
Selected(ic) ==
  IF ic.is_interval_ THEN ic.from_ .. ic.to_
  ELSE IF ic.is_set_ THEN {ic.set_[k] : k \in 1 .. ic.set_num_entries_}
  ELSE {j \in 0 .. (ic.dimension_ - 1) : ic.mask_[j + 1]}

\* The selected columns whose cost has magnitude at least infinite_cost
InfiniteCostColumns(ic, cost) ==
  {j \in Selected(ic) : Ge(Fabs(cost[j + 1]), infinite_cost)}

\* C13: assessCosts returns an error status whenever some selected column has
\* a cost of magnitude at least infinite_cost, and OK otherwise.
C13_AssessCostsStatus ==
  (lop.op = "assessCosts" /\ assessIndexCollection(lop.arg)) =>
    lop.status = (IF InfiniteCostColumns(lop.arg, lp.col_cost_) # {} THEN kError
                  ELSE kOk)

\* The positions of the pairs of bounds with lower > upper
Inconsistent(lower, upper) == {i \in 1 .. Len(lower) : Gt(lower[i], upper[i])}

\* Nothing but inconsistent bounds is wrong with an LP: its dimensions, costs
\* and matrix are accepted, no lower bound is at least infinite_bound and no
\* upper bound is at most -infinite_bound
OnlyInconsistent(l) ==
  /\ dimensionsOk(l)
  /\ \A j \in 1 .. l.num_col_ :
       /\ LegalCost(l.col_cost_[j])
       /\ Lt(l.col_lower_[j], infinite_bound)
       /\ Gt(l.col_upper_[j], Neg(infinite_bound))
  /\ \A i \in 1 .. l.num_row_ :
       /\ Lt(l.row_lower_[i], infinite_bound)
       /\ Gt(l.row_upper_[i], Neg(infinite_bound))
  /\ ~MatrixAssessError(l.a_matrix_, l.num_col_, l.num_row_)
  /\ Inconsistent(l.col_lower_, l.col_upper_) # {}
       \/ Inconsistent(l.row_lower_, l.row_upper_) # {}

\* C14: when some column or row has lower > upper and nothing else is wrong,
\* assessLp leaves these bounds as given and returns a status that differs
\* from OK.
C14_InconsistentBoundsWarned ==
  [][(lop'.op = "assessLp" /\ OnlyInconsistent(lp)) =>
       /\ \A j \in Inconsistent(lp.col_lower_, lp.col_upper_) :
            lp'.col_lower_[j] = lp.col_lower_[j] /\ lp'.col_upper_[j] = lp.col_upper_[j]
       /\ \A i \in Inconsistent(lp.row_lower_, lp.row_upper_) :
            lp'.row_lower_[i] = lp.row_lower_[i] /\ lp'.row_upper_[i] = lp.row_upper_[i]
       /\ lop'.status # kOk]_vars

\* The pair of bounds at position i is as cleanBounds has to leave the pair
\* it was given: collapsed to the midpoint when 0 < lower - upper (within the
\* tolerance), and unchanged otherwise
Cleaned(lower, upper, newLower, newUpper, i) ==
  LET mid == Mul(Q(1, 2), Add(lower[i], upper[i]))
  IN  IF Gt(Sub(lower[i], upper[i]), Zero)
      THEN newLower[i] = mid /\ newUpper[i] = mid
      ELSE newLower[i] = lower[i] /\ newUpper[i] = upper[i]

\* Some pair of bounds has lower - upper beyond the tolerance
GapBeyondTolerance(l) ==
  \/ \E j \in 1 .. l.num_col_ :
       Gt(Sub(l.col_lower_[j], l.col_upper_[j]), primal_feasibility_tolerance)
  \/ \E i \in 1 .. l.num_row_ :
       Gt(Sub(l.row_lower_[i], l.row_upper_[i]), primal_feasibility_tolerance)

\* C15: cleanBounds returns an error if some column or row has lower - upper
\* beyond primal_feasibility_tolerance; otherwise it collapses every pair with
\* 0 < lower - upper to its midpoint, leaves every other pair unchanged,
\* returns a warning if it collapsed at least one pair and OK if none, and
\* every column and row then has lower <= upper.
C15_CleanBounds ==
  [][lop'.op = "cleanBounds" =>
       IF GapBeyondTolerance(lp) THEN lop'.status = kError
       ELSE /\ \A j \in 1 .. lp.num_col_ :
                 /\ Cleaned(lp.col_lower_, lp.col_upper_, lp'.col_lower_, lp'.col_upper_, j)
                 /\ Le(lp'.col_lower_[j], lp'.col_upper_[j])
            /\ \A i \in 1 .. lp.num_row_ :
                 /\ Cleaned(lp.row_lower_, lp.row_upper_, lp'.row_lower_, lp'.row_upper_, i)
                 /\ Le(lp'.row_lower_[i], lp'.row_upper_[i])
            /\ lop'.status =
                 (IF Inconsistent(lp.col_lower_, lp.col_upper_) # {}
                       \/ Inconsistent(lp.row_lower_, lp.row_upper_) # {}
                  THEN kWarning ELSE kOk)]_vars

\* cleanBounds has returned a warning: it collapsed the bounds of a column to
\* their midpoint and left a consistent row as it was
C15_Witness ==
  /\ lop.op = "cleanBounds"
  /\ lop.status = kWarning
  /\ \E j \in 1 .. lp.num_col_ :
       lp.col_lower_[j] = Q(1, 2) /\ lp.col_upper_[j] = Q(1, 2)
  /\ \E i \in 1 .. lp.num_row_ : Lt(lp.row_lower_[i], lp.row_upper_[i])

\* A set that does not increase strictly or leaves [0, dim - 1]
BadSet(ic, dim) ==
  /\ ic.is_set_
  /\ \/ \E k \in 1 .. ic.set_num_entries_ : ic.set_[k] < 0 \/ ic.set_[k] > dim - 1
     \/ \E k \in 2 .. ic.set_num_entries_ : ic.set_[k - 1] >= ic.set_[k]

\* C16: deleteLpCols and deleteLpRows given a set that is not strictly
\* increasing or that has an entry outside [0, dim - 1] return an error and
\* leave the cost, bound and name vectors, the matrix and num_col_ and
\* num_row_ unchanged.
C16_DeleteRejectsBadSet ==
  [][/\ (lop'.op = "deleteLpCols" /\ BadSet(lop'.arg, lp.num_col_))
          => (lop'.status = kError /\ lp' = lp)
     /\ (lop'.op = "deleteLpRows" /\ BadSet(lop'.arg, lp.num_row_))
          => (lop'.status = kError /\ lp' = lp)]_vars

\* deleteLpCols has rejected a set that decreases and deleteLpRows would
\* have had rows to delete
C16_Witness ==
  /\ lop.op = "deleteLpCols"
  /\ lop.status = kError
  /\ lop.arg.is_set_
  /\ lop.arg.set_ = <<1, 0>>
  /\ lp.num_col_ = MaxDeleteCol
  /\ Len(lp.col_names_) = MaxDeleteCol

\* The entries of a vector at the positions kept, in their order
KeptOf(vector, kept) == [k \in 1 .. Len(kept) |-> vector[kept[k]]]

\* The positions of dim indices that a collection does not name, in order
Complement(ic, dim) == Increasing({j \in 1 .. dim : (j - 1) \notin Selected(ic)})

\* C17: after a deletion of columns or rows succeeds, the cost, lower, upper
\* and name vectors hold exactly the entries of the columns or rows that are
\* not in the collection, in their original order, and the new count is the
\* old count less the number deleted; an empty collection changes nothing.
C17_DeleteKeepsComplement ==
  [][/\ (lop'.op = "deleteLpCols" /\ lop'.status = kOk) =>
          LET kept == Complement(lop'.arg, lp.num_col_)
          IN  /\ lp'.col_cost_ = KeptOf(lp.col_cost_, kept)
              /\ lp'.col_lower_ = KeptOf(lp.col_lower_, kept)
              /\ lp'.col_upper_ = KeptOf(lp.col_upper_, kept)
              /\ lp'.col_names_ = (IF lp.col_names_ = <<>> THEN <<>>
                                   ELSE KeptOf(lp.col_names_, kept))
              /\ lp'.num_col_ = lp.num_col_ - Cardinality(Selected(lop'.arg))
              /\ Selected(lop'.arg) = {} => lp' = lp
     /\ (lop'.op = "deleteLpRows" /\ lop'.status = kOk) =>
          LET kept == Complement(lop'.arg, lp.num_row_)
          IN  /\ lp'.row_lower_ = KeptOf(lp.row_lower_, kept)
              /\ lp'.row_upper_ = KeptOf(lp.row_upper_, kept)
              /\ lp'.row_names_ = (IF lp.row_names_ = <<>> THEN <<>>
                                   ELSE KeptOf(lp.row_names_, kept))
              /\ lp'.num_row_ = lp.num_row_ - Cardinality(Selected(lop'.arg))
              /\ Selected(lop'.arg) = {} => lp' = lp]_vars

\* deleteLpCols has deleted the first and the last of three named columns by
\* a set and left the one between them
C17_Witness ==
  /\ lop.op = "deleteLpCols"
  /\ lop.status = kOk
  /\ lop.arg.is_set_
  /\ lop.arg.set_ = <<0, 2>>
  /\ lp.num_col_ = 1
  /\ lp.col_cost_ = <<R(2)>>
  /\ lp.col_names_ = <<<<"c", 1>>>>

\* An index outside [0, dim - 1]
OutOfRange(ix, dim) == ix < 0 \/ ix > dim - 1

\* C18: changeLpMatrixCoefficient returns an error and leaves the matrix
\* unchanged for every row outside [0, num_row - 1] and every column outside
\* [0, num_col - 1], row = num_row and col = num_col among them, exactly as
\* getLpMatrixCoefficient rejects the same indices.
C18_ChangeRejectsOutOfRange ==
  [][/\ (/\ lop'.op = "changeLpMatrixCoefficient"
         /\ OutOfRange(lop'.arg.row, lp.num_row_) \/ OutOfRange(lop'.arg.col, lp.num_col_))
          => (lop'.status = kError /\ lp'.a_matrix_ = lp.a_matrix_)
     /\ (/\ lop'.op = "getLpMatrixCoefficient"
         /\ OutOfRange(lop'.arg.row, lp.num_row_) \/ OutOfRange(lop'.arg.col, lp.num_col_))
          => lop'.status = kError]_vars

\* A matrix of nc columns is a valid column-wise matrix: start_ begins at 0,
\* does not decrease and ends at the number of entries stored, and the row
\* indices of every column increase strictly
ValidCsc(m, nc) ==
  /\ Len(m.start_) = nc + 1
  /\ m.start_[1] = 0
  /\ \A j \in 1 .. nc : m.start_[j] <= m.start_[j + 1]
  /\ m.start_[nc + 1] = Len(m.index_)
  /\ m.start_[nc + 1] = Len(m.value_)
  /\ \A j \in 1 .. nc : \A el \in (m.start_[j] + 2) .. m.start_[j + 1] :
       m.index_[el - 1] < m.index_[el]

\* C19: a successful changeLpMatrixCoefficient of a coefficient of a valid
\* column-wise matrix leaves a valid column-wise matrix, so that the matrix
\* is valid after any sequence of such calls.
C19_ChangeKeepsCsc ==
  [][(/\ lop'.op = "changeLpMatrixCoefficient"
      /\ lop'.status = kOk
      /\ ~OutOfRange(lop'.arg.row, lp.num_row_)
      /\ ~OutOfRange(lop'.arg.col, lp.num_col_)
      /\ ValidCsc(lp.a_matrix_, lp.num_col_))
       => ValidCsc(lp'.a_matrix_, lp'.num_col_)]_vars

\* C20: writeBasisFile of a valid basis followed by readBasisFile of that
\* file into a host basis of the same numbers of columns and rows returns OK
\* and leaves the statuses of the host equal to those of the basis written.
C20_BasisRoundTrip ==
  (/\ bop.op = "readBasisFile"
   /\ file # <<>>
   /\ Len(host_basis.col_status) = Len(basis.col_status)
   /\ Len(host_basis.row_status) = Len(basis.row_status))
    => /\ bop.status = kOk
       /\ host_basis.col_status = basis.col_status
       /\ host_basis.row_status = basis.row_status

\* A basis with a status of two digits has been written and read
C20_Witness ==
  /\ bop.op = "readBasisFile"
  /\ bop.status = kOk
  /\ basis.valid
  /\ file # <<>>
  /\ host_basis.col_status = <<12, 0>>
  /\ host_basis.row_status = <<4>>


\* the file holds a basis whose sizes differ from those of the host basis
Mismatched ==
  /\ file # <<>>
  /\ \/ Len(basis.col_status) # Len(host_basis.col_status)
     \/ Len(basis.row_status) # Len(host_basis.row_status)

ScaledBack == lop.op = "applyReciprocalScalingToLp"

\* the finite value is what it was
Restored(original, now) == IsFinite(original) => now = original

\* a lower bound of -infinity or an upper bound of +infinity is what it was
InfinityKept(original, now, infinity) == original = infinity => now = infinity

InfiniteBoundsKept(original, now) ==
  /\ \A j \in 1 .. original.num_col_ :
       /\ InfinityKept(original.col_lower_[j], now.col_lower_[j], NInf)
       /\ InfinityKept(original.col_upper_[j], now.col_upper_[j], PInf)
  /\ \A i \in 1 .. original.num_row_ :
       /\ InfinityKept(original.row_lower_[i], now.row_lower_[i], NInf)
       /\ InfinityKept(original.row_upper_[i], now.row_upper_[i], PInf)

RestoredExactly(original, scaled, now, factor) ==
  (IsFinite(original) /\ IsPowerOfTwo(factor) /\ IsNormal(scaled)) => now = original

RowBoundsOf(l, row, s) ==
  applyScalingToLpRowBounds(l, [i \in 1 .. l.num_row_ |-> s],
                            Interval(l.num_row_, row, row)).lp

\* C30: applyScalingToLpRow(row, s) with s > 0 leaves the finite lower and
\* upper bound of the row as applyScalingToLpRowBounds with rowScale[row] = s
\* does, that is, multiplied by s.
C30_RowScalingAgrees ==
  [][(/\ lop'.op = "applyScalingToLpRow"
      /\ lop'.status = kOk
      /\ Gt(lop'.arg.rowScale, Zero))
       => LET row == lop'.arg.row
              all == RowBoundsOf(lp, row, lop'.arg.rowScale)
          IN  /\ IsFinite(lp.row_lower_[row + 1])
                   => /\ lp'.row_lower_[row + 1] = all.row_lower_[row + 1]
                      /\ lp'.row_lower_[row + 1]
                           = FMul(lp.row_lower_[row + 1], lop'.arg.rowScale)
              /\ IsFinite(lp.row_upper_[row + 1])
                   => /\ lp'.row_upper_[row + 1] = all.row_upper_[row + 1]
                      /\ lp'.row_upper_[row + 1]
                           = FMul(lp.row_upper_[row + 1], lop'.arg.rowScale)]_vars


\* the observations of column col, upwards (delta > 0) or downwards
ObservationsOf(col, up) ==
  {i \in 1 .. Len(psop.observations) :
     /\ psop.observations[i].col = col
     /\ Gt(psop.observations[i].delta, Zero) = up}

\* the unit gain of observation i: objdelta / delta upwards and
\* -objdelta / delta downwards
GainOf(i) ==
  IF Gt(psop.observations[i].delta, Zero)
  THEN Div(psop.observations[i].objdelta, psop.observations[i].delta)
  ELSE Div(Neg(psop.observations[i].objdelta), psop.observations[i].delta)

\* the sum of the unit gains of the observations of S among the first n
RECURSIVE SumOfGains(_, _)
SumOfGains(S, n) ==
  IF n = 0 THEN Zero
  ELSE IF n \in S THEN Add(SumOfGains(S, n - 1), GainOf(n))
  ELSE SumOfGains(S, n - 1)

\* the arithmetic mean of the unit gains of the observations of S, zero if
\* there is none
MeanOfGains(S) ==
  IF S = {} THEN Zero
  ELSE Div(SumOfGains(S, Len(psop.observations)), R(Cardinality(S)))

\* C24: after any sequence of addObservation calls from zero, for every
\* column the up and the down pseudocost are the arithmetic means of the unit
\* gains recorded for it in that direction, the sample counters are their
\* numbers, and cost_total is the mean of all unit gains recorded.
C24_RunningAverages ==
  /\ \A j \in 1 .. Len(pseudocost.pseudocostup) :
       /\ pseudocost.nsamplesup[j] = Cardinality(ObservationsOf(j - 1, TRUE))
       /\ pseudocost.pseudocostup[j] = MeanOfGains(ObservationsOf(j - 1, TRUE))
       /\ pseudocost.nsamplesdown[j] = Cardinality(ObservationsOf(j - 1, FALSE))
       /\ pseudocost.pseudocostdown[j] = MeanOfGains(ObservationsOf(j - 1, FALSE))
  /\ pseudocost.cost_total = MeanOfGains(1 .. Len(psop.observations))
  /\ pseudocost.nsamplestotal = Len(psop.observations)

\* column 0 has been observed upwards twice with different unit gains and
\* downwards once with a gain
C24_Witness ==
  /\ psop.op = "addObservation"
  /\ Cardinality(ObservationsOf(0, TRUE)) = 2
  /\ Cardinality(ObservationsOf(0, FALSE)) = 1
  /\ pseudocost.pseudocostup[1] = Q(3, 4)
  /\ pseudocost.pseudocostdown[1] = R(3)
  /\ pseudocost.cost_total = Q(3, 2)


\* the sum of the counters up[j] + down[j] over the columns
RECURSIVE SumOfCounters(_, _, _)
SumOfCounters(up, down, n) ==
  IF n = 0 THEN 0 ELSE SumOfCounters(up, down, n - 1) + up[n] + down[n]

\* C28: after any sequence of addObservation, addCutoffObservation and
\* subtractBase calls from zeroed counters, with subtractBase given an earlier
\* copy of the object, nsamplestotal is the sum of nsamplesup and
\* nsamplesdown over the columns and ncutoffstotal is the sum of ncutoffsup
\* and ncutoffsdown over the columns.
C28_CountersConserved ==
  /\ pseudocost.nsamplestotal =
       SumOfCounters(pseudocost.nsamplesup, pseudocost.nsamplesdown,
                     Len(pseudocost.nsamplesup))
  /\ pseudocost.ncutoffstotal =
       SumOfCounters(pseudocost.ncutoffsup, pseudocost.ncutoffsdown,
                     Len(pseudocost.ncutoffsup))


\* the functions run called, in order
Called == [i \in 1 .. Len(hop.calls) |-> hop.calls[i].fn]

\* C23: when runPresolve returns Infeasible or Unbounded, run returns that
\* status at once: it has called neither runSolver nor runPostsolve.
C23_PresolveShortCircuits ==
  (hop.op = "run" /\ hop.presolve_status \in {"Infeasible", "Unbounded"})
    => /\ hop.result = hop.presolve_status
       /\ Called = <<"runPresolve">>

\* a second call of run found the LP unbounded on presolve and returned
C23_Witness ==
  /\ hop.op = "run"
  /\ hop.call = 2
  /\ hop.presolve_status = "Unbounded"
  /\ hop.result = "Unbounded"
  /\ Len(lps_) = 3

\* C25: when presolve reduces the LP to empty, run calls no solver on a
\* reduced LP and calls runPostsolve before it returns.
C25_EmptyProceedsToPostsolve ==
  (hop.op = "run" /\ hop.presolve_status = "ReducedToEmpty")
    => /\ \A i \in 1 .. Len(hop.calls) :
            hop.calls[i].fn = "runSolver" => hop.calls[i].model.lp # "reduced_lp"
       /\ \E i \in 1 .. Len(hop.calls) : hop.calls[i].fn = "runPostsolve"

\* C29: in every call of run, each model object handed to runSolver was
\* created in that call, from its LP or from its reduced LP.
C29_SolvesTheLpOfTheCall ==
  hop.op = "run"
    => \A i \in 1 .. Len(hop.calls) :
         hop.calls[i].fn = "runSolver" => hop.calls[i].model.call = hop.call


\* C26: in every reachable state every member of freeList is a structural
\* column (iCol < num_col), so that the assertions of createFreemove and
\* deleteFreemove hold.
C26_FreeListStructural == \A iCol \in freeList : iCol < num_col

\* the candidates, their groups and their number chooseFinalLargeAlpha is given
LargeAlphaData == IF UseQuadSort(hist.reducedCount) THEN workData ELSE sorted_workData

LargeAlphaGroup == IF UseQuadSort(hist.reducedCount) THEN workGroup ELSE alt_workGroup

LargeAlphaCount == IF UseQuadSort(hist.reducedCount) THEN workCount ELSE alt_workCount

\* b is a valid pivot position and every group from the last to that of b has
\* a candidate
ValidBreak(b, group) ==
  /\ b.breakIndex >= 0
  /\ b.breakGroup >= 0
  /\ group[b.breakGroup + 1] <= b.breakIndex
  /\ b.breakIndex < group[b.breakGroup + 2]
  /\ \A iGroup \in b.breakGroup .. Len(group) - 2 : group[iGroup + 1] < group[iGroup + 2]

====
